---- MODULE Spec2Model ----
(***************************************************************************)
(* Model of the load-generation and latency-measurement engine:           *)
(*   - the LatencyProvider reporter around a LatencyMetricsCollector,      *)
(*   - the useMinionRunner hook that drives one behavior,                  *)
(*   - the reader / writer / mixed behavior loops and the seeder,          *)
(*   - SeededRandom and the LatencyMetricsCollector on their own,          *)
(*   - the tracked mutation / action wrappers, the headless items context  *)
(*     and two runs of the mixed behavior replayed from one seed.          *)
(* JavaScript is single threaded: every action below is one synchronous    *)
(* segment of a handler, from its entry (or from the resumption of an      *)
(* await) to the next await or return.                                     *)
(***************************************************************************)
EXTENDS Integers, Sequences, FiniteSets

(* ----------------------------- bounds ---------------------------------- *)
\* number of samples the environment records in one behaviour of the reporter
MaxSamples == 2
\* largest maxBufferSize the configuration is drawn from
MaxBufferCfg == 2
\* number of start() calls the runner accepts in one behaviour
MaxRuns == 2
\* number of data-access operations one run of the runner issues
MaxRunOps == 1
\* number of loop iterations of one behavior run
MaxIter == 2
\* largest count of the seeder configurations, in halves (6 is count = 3)
MaxCount2 == 6
\* largest batchSize of the seeder configurations, in halves (4 is batchSize = 2)
MaxBatch2 == 4
\* number of calls made on each SeededRandom generator
MaxCalls == 3
\* a draw of the writer's PRNG is one of 0/Draws, ..., (Draws - 1)/Draws
Draws == 3
\* length of the longest array handed to shuffle
MaxList == 3
\* number of samples recorded into the collector on top of its first content
MaxRecords == 2
\* number of seconds the clock advances
MaxTicks == 2
\* largest seed of the replayed runs
MaxSeed == 5
\* largest value of Date.now() % 10000 a replayed run sees
MaxStamp == 1
\* largest number of items in the cache of the replayed runs
MaxCache == 2
\* largest numProjects handed to _configure
MaxProjects == 2
\* largest workerId handed to setup
MaxWorker == 2
\* number of listItems subscriptions one items context creates
MaxSubs == 3

VARIABLES
  \* ---- LatencyProvider / LatencyMetricsCollector ----
  records,        \* collectorRef.current.records: the buffer, a sequence of samples
  flushTimer,     \* flushTimerRef.current holds an armed interval
  disabled,       \* the `disabled` prop of the current render
  mounted,        \* the provider is mounted
  cfg,            \* props: [onFlush, reportUrl : BOOLEAN, maxBufferSize : Nat]
  flushes,        \* every flush() invocation that passed the empty check, in order
  onFlushLog,     \* the batches the onFlush sink was invoked with
  postLog,        \* the set of payloads handed to fetch(reportUrl)
  onRecordLog,    \* the samples the onRecord observer was invoked with
  errorLog,       \* the distinct console.error lines of the reporter
  nextSample,     \* identity of the next recorded sample
  \* ---- history of the reporter (not program state) ----
  lastOp,         \* the kind of handler that ran last
  callsSinceRecord, \* flush() calls since the last record, counted up to 2
  recInfo,        \* per sample: was a flush in flight, and the next flush's index
  resetDropped,   \* samples discarded by reset()
  stopSnapshot,   \* buffer content at the last effect cleanup
  stopped,        \* the effect cleanup ran and no effect re-armed the timer
  failedAt,       \* flushes begun when the first delivery failed, 0 when none has
  \* ---- useMinionRunner ----
  isRunning,      \* the isRunning state, as set by the last setIsRunning
  seenRunning,    \* isRunning as the last render gave it to the start callback
  stopRef,        \* stopRef.current
  logs,           \* the distinct kinds of line in the logs state
  runs,           \* every accepted start(): [phase, initRejected, failed, ranRun, ops,
                  \* stopInInit]; stopInInit is history: stop() was called
                  \* while this start awaited init
  lastStart,      \* history: what the last start() call did
  \* ---- one behavior.run(ctx) of the reader, the writer or the mixed behavior ----
  kind,           \* which behavior runs
  bpc,            \* where run() is: entry, op (awaiting), sleep (awaiting), returned, escaped
  stopFlag,       \* what ctx.shouldStop() returns
  hasReport,      \* ctx.reportMetric is provided (it is optional)
  iterations,     \* the iterations counter of the loop
  opLog,          \* the data-access operations issued: [op, id, afterStop]
  metricLog,      \* the success flags passed to ctx.reportMetric
  knownItems,     \* writer: the ids it has created
  returnedIds,    \* history: the ids that resolved createItem calls returned
  \* ---- history of the run (not program state) ----
  iterLog,        \* per finished iteration: [threw, reported], the operation
                  \* threw and the success flags the iteration reported
  polls,          \* evaluations of the loop condition
  stopAtEntry,    \* the stop predicate was true when run() was entered
  stopLatched,    \* the stop was requested while the loop was running
  sleepsAfterStop, \* sleeps begun after the stop was requested
  \* ---- one seederBehavior.init(ctx) ----
  sdCount,        \* config.count, in halves (the schema accepts any number >= 1)
  sdBatchSize,    \* config.batchSize, in halves
  created,        \* the `created` counter, in halves
  batches,        \* the number of items of each ctx.createItems(batch) call
  sdMetrics,      \* the success flags passed to ctx.reportMetric
  spc,            \* where init() is: entry, create, sleep, done, stopped
  sdStop,         \* what ctx.shouldStop() returns to the seeder
  sdHasReport,    \* ctx.reportMetric is provided
  stored,         \* the number of items the seeder's batches put into the data store
  sdStopAt,       \* history: where init() was when the stop was requested
  \* ---- two SeededRandom generators driven by the same calls ----
  genA,           \* the closure variable `seed` of the first generator, mod 2^32
  genB,           \* the same of the second generator
  arrA,           \* the array the first generator's caller shuffles
  arrB,           \* the same for the second generator
  outA,           \* what the calls on the first generator returned, in order
  outB,           \* the same for the second generator
  lastCall,       \* history: the last call on the first generator
  \* ---- one LatencyMetricsCollector ----
  colRecords,     \* this.records: samples [latencyMs, success, type]
  colStartTime,   \* this.startTime, in ms
  clock,          \* what Date.now() returns, in ms
  colResult,      \* what the last getRecords / getCount / getMetrics returned
  \* ---- history of the collector (not program state) ----
  colOp,          \* the last operation on the collector
  recordedSince,  \* the samples recorded since the buffer was last emptied
  \* ---- calls of the functions of useTrackedMutation / useTrackedAction ----
  tracked,        \* per call: [type, hasCtx, seenDisabled, pc, recorded]; pc is
                  \* await, resolved or rejected, recorded the samples it recorded
  \* ---- one headless items context (createContext of context.ts) ----
  subscribed,     \* the `subscribed` flag
  currentUnsubscribe, \* <<>> when undefined, else <<i>>: the unsubscribe
                  \* function of the i-th subscription
  assignedProjectId, \* <<>> when undefined, else <<p>>
  numProjects,    \* the numProjects setting
  subs,           \* the client's listItems subscriptions, in order of creation:
                  \* [projectId, active, by], by the caller of subscribeToItems
  cachedFrom,     \* <<>> for the first cachedItems, else <<i>>: the subscription
                  \* whose update filled cachedItems last
  \* ---- two runs of mixedBehavior.run with the same seed ----
  rpGenA,         \* the seed variable of the first run's ctx.random
  rpGenB,         \* the same of the second run
  rpOpsA,         \* the context operations the first run issued: [op, args]
  rpOpsB,         \* the same of the second run
  rpIterA,        \* the iterations the first run has made
  rpIterB,        \* the same of the second run
  rpItems         \* the number of items the cache holds in both runs

repVars == <<records, flushTimer, disabled, mounted, cfg, flushes, onFlushLog,
             postLog, onRecordLog, errorLog, nextSample, lastOp,
             callsSinceRecord, recInfo, resetDropped, stopSnapshot, stopped,
             failedAt>>

runnerVars == <<isRunning, seenRunning, stopRef, logs, runs, lastStart>>

behVars == <<kind, bpc, stopFlag, hasReport, iterations, opLog, metricLog,
             knownItems, returnedIds, iterLog, polls, stopAtEntry, stopLatched,
             sleepsAfterStop>>

sdVars == <<sdCount, sdBatchSize, created, batches, sdMetrics, spc, sdStop,
            sdHasReport, stored, sdStopAt>>

\* the components added after the reporter, the runner and the run loops
rngVars == <<genA, genB, arrA, arrB, outA, outB, lastCall>>

colVars == <<colRecords, colStartTime, clock, colResult, colOp, recordedSince>>

trkVars == <<tracked>>

subVars == <<subscribed, currentUnsubscribe, assignedProjectId, numProjects, subs,
             cachedFrom>>

rplVars == <<rpGenA, rpGenB, rpOpsA, rpOpsB, rpIterA, rpIterB, rpItems>>

\* the components added last
lateVars == <<trkVars, subVars, rplVars>>

restVars == <<sdVars, rngVars, colVars, lateVars>>

vars == <<repVars, runnerVars, behVars, restVars>>

Range(s) == {s[i] : i \in 1..Len(s)}

(* ------------------- LatencyMetricsCollector --------------------------- *)
\* variant: this.records.unshift(rec)
CollectorRecordFront(buf, rec) == <<rec>> \o buf
\* record(rec): this.records.push(rec)
CollectorRecord(buf, rec) == Append(buf, rec)

\* getRecords(): a copy of the buffer
getRecords(buf) == buf

\* variant: the buffer is left as it is
clearRecordsKeep(buf) == buf
\* clearRecords(): this.records = []
clearRecords(buf) == <<>>

\* getCount(): this.records.length
getCount(buf) == Len(buf)

\* getMetrics().totalCount: this.records.length of the live buffer
MetricsTotalCount(buf) == Len(buf)

(* --------------------------- LatencyProvider --------------------------- *)
OnFlushOutcomes == {"ok", "reject"}
PostOutcomes == {"ok", "notok", "reject"}

\* variant: the buffer is cleared once the delivery is over (copy, send, clear)
ClearAfterDeliver == FALSE
\* "Clear before async to avoid double-flush", lines 74-75: clearRecords() is
\* called before the first await of flush()
ClearBeforeDeliver == TRUE

\* variant: no early return, an empty batch is delivered like any other
NeverEmpty(batch) == FALSE
\* if (records.length === 0) return, line 65
IsEmptyBatch(batch) == Len(batch) = 0

\* variant: no try/catch around the sink, its failure rejects flush()
SinkFailureEscapes(outcome) == outcome # "ok"
\* try { await onFlush(records) } catch { console.error } and
\* try { await fetch(...) } catch { console.error }: whether the failure
\* leaves flush() as an exception
SinkFailureRaises(outcome) == FALSE

\* variant: the catch block puts the batch back into the buffer
BufferRestored(buf, batch) == batch \o buf
\* the buffer after a catch block of flush(): the block only logs
BufferAfterCatch(buf, batch) == buf

\* the buffer when flush() returns
BufferAtReturn(buf) == IF ClearBeforeDeliver THEN buf ELSE clearRecords(buf)

\* the payload built at lines 89-94: the flush's own records and the metrics
\* of the collector as it is at that moment
Payload(f, batch, buf) ==
  [flush |-> f, records |-> batch, totalCount |-> MetricsTotalCount(buf)]

\* history: the number of flushes begun when the first delivery fails
NoteFailure(failed, nFlushes) ==
  IF failed /\ failedAt = 0 THEN nFlushes ELSE failedAt

\* The synchronous prefix of flush() (lines 64-80 and, when no onFlush is
\* configured or it throws synchronously, on to the fetch call at line 96).
\* buf is the buffer the call finds; syncThrow says that onFlush throws
\* before returning a promise.
FlushSync(buf, syncThrow) ==
  LET batch == getRecords(buf)
      f == Len(flushes) + 1
  IN
  IF IsEmptyBatch(batch)
  THEN /\ records' = buf
       /\ UNCHANGED <<flushes, onFlushLog, postLog, errorLog, failedAt>>
  ELSE
    LET cleared == IF ClearBeforeDeliver THEN clearRecords(buf) ELSE buf
        threw == cfg.onFlush /\ syncThrow
        awaits == cfg.onFlush /\ ~syncThrow
        raised == threw /\ SinkFailureRaises("reject")
        caught == IF threw THEN BufferAfterCatch(cleared, batch) ELSE cleared
        posts == ~awaits /\ ~raised /\ cfg.reportUrl
        pc == IF awaits THEN "onFlush"
              ELSE IF raised THEN "rejected"
              ELSE IF posts THEN "post"
              ELSE "resolved"
    IN
    /\ records' = IF pc = "resolved" THEN BufferAtReturn(caught) ELSE caught
    /\ flushes' = Append(flushes, [batch |-> batch, pc |-> pc])
    /\ onFlushLog' = IF cfg.onFlush THEN Append(onFlushLog, batch) ELSE onFlushLog
    /\ postLog' = IF posts THEN postLog \cup {Payload(f, batch, caught)} ELSE postLog
    /\ errorLog' = IF threw THEN errorLog \cup {"onFlush error"} ELSE errorLog
    /\ failedAt' = NoteFailure(threw, f)

\* syncThrow is only a choice when the sink is configured and the call reaches it
SyncThrowChoices(buf) ==
  IF cfg.onFlush /\ ~IsEmptyBatch(getRecords(buf)) THEN BOOLEAN ELSE {FALSE}

InFlight == {f \in 1..Len(flushes) : flushes[f].pc \in {"onFlush", "post"}}

\* history: flush() calls since the last record, counted up to 2
CountCall(n) == IF n < 2 THEN n + 1 ELSE n

\* variant: the flush is triggered only above the threshold
AboveThreshold(count, max) == count > max
\* if (collectorRef.current.getCount() >= maxBufferSize) void flush()
ReachedThreshold(count, max) == count >= max

\* onRecord?.(fullRecord): the observer, when one is configured, is invoked
ObserverLog(log, rec) == IF cfg.onRecord THEN Append(log, rec) ELSE log

\* variant: record has no guard on the disabled prop
RecordNeverReturnsEarly(seenDisabled) == FALSE
\* `if (disabled) return`, line 116: disabled is the prop of the render that
\* built this record callback (dependency list, line 140)
RecordReturnsEarly(seenDisabled) == seenDisabled

\* the body of one record(rec) call, lines 114-141, made through the record
\* callback of a render whose disabled prop was seenDisabled
RecordCall(seenDisabled) ==
  /\ IF RecordReturnsEarly(seenDisabled)
     THEN /\ lastOp' = "ignored"
          /\ UNCHANGED <<records, flushes, onFlushLog, postLog, onRecordLog, errorLog,
                         nextSample, callsSinceRecord, recInfo, failedAt>>
     ELSE LET s == nextSample
              buf == CollectorRecord(records, s)
              full == ReachedThreshold(getCount(buf), cfg.maxBufferSize)
          IN
          /\ nextSample' = s + 1
          /\ onRecordLog' = ObserverLog(onRecordLog, s)
          /\ recInfo' = Append(recInfo, [during |-> InFlight # {},
                                        next |-> Len(flushes) + 1])
          /\ IF full
             THEN /\ \E st \in SyncThrowChoices(buf) : FlushSync(buf, st)
                  /\ callsSinceRecord' = 1
             ELSE /\ records' = buf
                  /\ callsSinceRecord' = 0
                  /\ UNCHANGED <<flushes, onFlushLog, postLog, errorLog, failedAt>>
          /\ lastOp' = "record"
  /\ UNCHANGED <<flushTimer, disabled, mounted, cfg, resetDropped, stopSnapshot, stopped>>

\* contextValue.record called by a consumer of the current render, line 164
record ==
  /\ mounted
  /\ nextSample <= MaxSamples
  /\ RecordCall(disabled)

\* the setInterval callback, lines 147-149
timerFlush ==
  /\ flushTimer
  /\ nextSample' = nextSample
  /\ \E st \in SyncThrowChoices(records) : FlushSync(records, st)
  /\ lastOp' = "timer"
  /\ callsSinceRecord' = CountCall(callsSinceRecord)
  /\ UNCHANGED <<flushTimer, disabled, mounted, cfg, onRecordLog, recInfo, resetDropped, stopSnapshot, stopped>>

\* contextValue.flush called by a consumer, line 165
flush ==
  /\ mounted
  /\ nextSample' = nextSample
  /\ \E st \in SyncThrowChoices(records) : FlushSync(records, st)
  /\ lastOp' = "flush"
  /\ callsSinceRecord' = CountCall(callsSinceRecord)
  /\ UNCHANGED <<flushTimer, disabled, mounted, cfg, onRecordLog, recInfo, resetDropped, stopSnapshot, stopped>>

\* contextValue.reset, line 166, LatencyMetricsCollector.reset
reset ==
  /\ mounted
  /\ records # <<>>
  /\ records' = <<>>
  /\ resetDropped' = resetDropped \cup Range(records)
  /\ lastOp' = "other"
  /\ UNCHANGED <<flushTimer, disabled, mounted, cfg, flushes, onFlushLog, postLog,
                 onRecordLog, errorLog, nextSample, callsSinceRecord, recInfo,
                 stopSnapshot, stopped, failedAt>>

\* variant: the interval is left armed
clearIntervalNoop(t) == t
\* clearInterval(flushTimerRef.current), lines 152-154
clearInterval(t) == FALSE

\* the effect's cleanup, lines 151-157: disarm, then the final flush
Cleanup ==
  /\ flushTimer' = clearInterval(flushTimer)
  /\ \E st \in SyncThrowChoices(records) : FlushSync(records, st)
  /\ stopSnapshot' = Range(records)
  /\ stopped' = TRUE
  /\ callsSinceRecord' = CountCall(callsSinceRecord)
  /\ lastOp' = "cleanup"

\* unmount of the provider: the cleanup runs when the effect had armed a timer
unmount ==
  /\ mounted
  /\ nextSample' = nextSample
  /\ mounted' = FALSE
  /\ IF ~disabled
     THEN Cleanup
     ELSE /\ lastOp' = "other"
          /\ UNCHANGED <<flushTimer, records, flushes, onFlushLog, postLog, errorLog,
                         stopSnapshot, stopped, callsSinceRecord, failedAt>>
  /\ UNCHANGED <<disabled, cfg, onRecordLog, recInfo, resetDropped>>

\* a render that turns the `disabled` prop on: cleanup of the previous effect,
\* the new effect returns at line 145
disable ==
  /\ mounted /\ ~disabled
  /\ nextSample' = nextSample
  /\ disabled' = TRUE
  /\ Cleanup
  /\ UNCHANGED <<mounted, cfg, onRecordLog, recInfo, resetDropped>>

\* a render that turns the `disabled` prop off: the effect arms the interval
enable ==
  /\ mounted /\ disabled
  /\ disabled' = FALSE
  /\ flushTimer' = TRUE
  /\ stopped' = FALSE
  /\ lastOp' = "other"
  /\ UNCHANGED <<records, mounted, cfg, flushes, onFlushLog, postLog, onRecordLog,
                 errorLog, nextSample, callsSinceRecord, recInfo, resetDropped,
                 stopSnapshot, failedAt>>

SetPc(f, pc) == [flushes EXCEPT ![f].pc = pc]

\* resumption of flush() after `await onFlush(records)`, lines 80-100
onFlushSettled ==
  \E f \in 1..Len(flushes) : \E outcome \in OnFlushOutcomes :
    /\ flushes[f].pc = "onFlush"
    /\ nextSample' = nextSample
    /\ LET failed == outcome # "ok"
           raised == failed /\ SinkFailureRaises(outcome)
           caught == IF failed THEN BufferAfterCatch(records, flushes[f].batch) ELSE records
           posts == ~raised /\ cfg.reportUrl
           pc == IF raised THEN "rejected" ELSE IF posts THEN "post" ELSE "resolved"
       IN
       /\ records' = IF pc = "resolved" THEN BufferAtReturn(caught) ELSE caught
       /\ errorLog' = IF failed THEN errorLog \cup {"onFlush error"} ELSE errorLog
       /\ postLog' = IF posts THEN postLog \cup {Payload(f, flushes[f].batch, caught)}
                     ELSE postLog
       /\ flushes' = SetPc(f, pc)
       /\ failedAt' = NoteFailure(failed, Len(flushes))
       /\ lastOp' = IF failed THEN "failed" ELSE "other"
    /\ UNCHANGED <<flushTimer, disabled, mounted, cfg, onFlushLog, onRecordLog,
                   callsSinceRecord, recInfo, resetDropped, stopSnapshot,
                   stopped>>

\* resumption of flush() after `await fetch(...)`, lines 96-110
postSettled ==
  \E f \in 1..Len(flushes) : \E outcome \in PostOutcomes :
    /\ flushes[f].pc = "post"
    /\ nextSample' = nextSample
    /\ LET failed == outcome # "ok"
           raised == outcome = "reject" /\ SinkFailureRaises(outcome)
           caught == IF outcome = "reject"
                     THEN BufferAfterCatch(records, flushes[f].batch) ELSE records
       IN
       /\ records' = IF raised THEN caught ELSE BufferAtReturn(caught)
       /\ errorLog' = IF outcome = "ok" THEN errorLog
                      ELSE IF outcome = "notok"
                      THEN errorLog \cup {"Failed to report metrics"}
                      ELSE errorLog \cup {"Report error"}
       /\ flushes' = SetPc(f, IF raised THEN "rejected" ELSE "resolved")
       /\ failedAt' = NoteFailure(failed, Len(flushes))
       /\ lastOp' = IF failed THEN "failed" ELSE "other"
    /\ UNCHANGED <<flushTimer, disabled, mounted, cfg, onFlushLog, postLog, onRecordLog,
                   callsSinceRecord, recInfo, resetDropped, stopSnapshot,
                   stopped>>

\* the provider after its first render and effect
InitReporter ==
  /\ records = <<>>
  /\ disabled \in BOOLEAN
  /\ flushTimer = ~disabled
  /\ mounted = TRUE
  /\ cfg \in [onFlush : BOOLEAN, reportUrl : BOOLEAN, onRecord : BOOLEAN,
               maxBufferSize : 1..MaxBufferCfg]
  /\ flushes = <<>>
  /\ onFlushLog = <<>>
  /\ postLog = {}
  /\ onRecordLog = <<>>
  /\ errorLog = {}
  /\ nextSample = 1
  /\ lastOp = "other"
  /\ callsSinceRecord = 0
  /\ recInfo = <<>>
  /\ resetDropped = {}
  /\ stopSnapshot = {}
  /\ stopped = FALSE
  /\ failedAt = 0

\* the reporter part of the state while another component is explored
ReporterIdle ==
  /\ records = <<>>
  /\ disabled = TRUE
  /\ flushTimer = FALSE
  /\ mounted = FALSE
  /\ cfg = [onFlush |-> FALSE, reportUrl |-> FALSE, onRecord |-> FALSE,
            maxBufferSize |-> 1]
  /\ flushes = <<>>
  /\ onFlushLog = <<>>
  /\ postLog = {}
  /\ onRecordLog = <<>>
  /\ errorLog = {}
  /\ nextSample = 1
  /\ lastOp = "other"
  /\ callsSinceRecord = 0
  /\ recInfo = <<>>
  /\ resetDropped = {}
  /\ stopSnapshot = {}
  /\ stopped = FALSE
  /\ failedAt = 0

(* ----------------- useTrackedMutation / useTrackedAction --------------- *)
\* the hook instances of the component tree: a tracked mutation and a tracked
\* action under the provider, and a tracked mutation of a component outside it
\* (useLatencyContext() returns null there)
TrackedHooks == {[type |-> "mutation", hasCtx |-> TRUE],
                 [type |-> "action", hasCtx |-> TRUE],
                 [type |-> "mutation", hasCtx |-> FALSE]}

\* variant: the catch block forgets success = false
TrackedSuccessStuck(rejected) == TRUE
\* let success = true ... catch (err) { success = false; ...; throw err }
TrackedSuccess(rejected) == ~rejected

\* the tracked function is called: `await baseMutation(args)` (line 265) or
\* `await baseAction(args)` (line 313). latencyCtx is the context value of the
\* render that built the callback (null outside a provider), and with it the
\* record callback of that render
trackedCall ==
  \E hook \in TrackedHooks :
    /\ Len(tracked) < MaxSamples
    /\ tracked' = Append(tracked, [type |-> hook.type, hasCtx |-> hook.hasCtx,
                                   seenDisabled |-> disabled, pc |-> "await",
                                   recorded |-> <<>>])
    /\ UNCHANGED repVars

\* the underlying call settles: catch, finally with latencyCtx?.record(...),
\* then the return or the rethrow, lines 264-281 and 312-328
trackedSettled ==
  \E c \in 1..Len(tracked) : \E rejected \in BOOLEAN :
    /\ tracked[c].pc = "await"
    /\ IF tracked[c].hasCtx
       THEN RecordCall(tracked[c].seenDisabled)
       ELSE UNCHANGED repVars
    /\ tracked' = [tracked EXCEPT
         ![c].pc = IF rejected THEN "rejected" ELSE "resolved",
         ![c].recorded = [i \in 1..(nextSample' - nextSample) |->
                            [id |-> nextSample + i - 1, type |-> tracked[c].type,
                             success |-> TrackedSuccess(rejected)]]]

TrackedIdle == tracked = <<>>

(* ------------------- createContext (headless items context) ------------ *)
\* variant: the previous subscription is left alone
UnsubscribeSkipped(list, held) == list
\* `if (currentUnsubscribe) currentUnsubscribe()`, lines 28-30: the
\* subscription whose unsubscribe function is held stops being active
UnsubscribePrevious(list, held) ==
  IF held # <<>> THEN [list EXCEPT ![held[1]].active = FALSE] ELSE list

\* subscribeToItems(projectId), lines 26-56
subscribeToItems(projectId, by) ==
  /\ subs' = Append(UnsubscribePrevious(subs, currentUnsubscribe),
                    [projectId |-> projectId, active |-> TRUE, by |-> by])
  /\ subscribed' = TRUE
  /\ currentUnsubscribe' = <<Len(subs) + 1>>

\* ensureSubscribed(), lines 59-63
ensureSubscribed ==
  IF ~subscribed
  THEN subscribeToItems(assignedProjectId, "read")
  ELSE UNCHANGED <<subs, subscribed, currentUnsubscribe>>

\* _configure({ numProjects: n }), lines 71-75
ctxConfigure ==
  \E n \in 0..MaxProjects :
    /\ numProjects' = n
    /\ UNCHANGED <<subscribed, currentUnsubscribe, assignedProjectId, subs, cachedFrom>>

\* setup(visibleId, workerId), lines 77-84
ctxSetup ==
  \E workerId \in 0..MaxWorker :
    /\ Len(subs) < MaxSubs
    /\ IF numProjects > 0
       THEN /\ assignedProjectId' = <<workerId % numProjects>>
            /\ subscribeToItems(assignedProjectId', "setup")
       ELSE UNCHANGED <<assignedProjectId, subs, subscribed, currentUnsubscribe>>
    /\ UNCHANGED <<numProjects, cachedFrom>>

\* a read of the context: getItems, getItemsByStatus, getItemsByPriority,
\* getRandomItem or getItemCount, lines 133-158
ctxRead ==
  /\ Len(subs) < MaxSubs
  /\ ensureSubscribed
  /\ UNCHANGED <<assignedProjectId, numProjects, cachedFrom>>

\* the client delivers an update of listItems to the callback of an active
\* subscription, lines 38-55
ctxUpdate ==
  \E i \in 1..Len(subs) :
    /\ subs[i].active
    /\ cachedFrom' = <<i>>
    /\ UNCHANGED <<subscribed, currentUnsubscribe, assignedProjectId, numProjects, subs>>

\* createContext(client), lines 15-23
InitItemsContext ==
  /\ subscribed = FALSE
  /\ currentUnsubscribe = <<>>
  /\ assignedProjectId = <<>>
  /\ numProjects = 0
  /\ subs = <<>>
  /\ cachedFrom = <<>>

ItemsContextIdle == InitItemsContext


(* --------------------------- useMinionRunner --------------------------- *)
\* The behavior is driven through its interface: init and run are awaited
\* calls that resolve or reject, and issue data-access operations meanwhile.
Active == {r \in 1..Len(runs) : runs[r].phase # "ended"}

\* variant: the guard reads the state the last setIsRunning set
GuardOnLatestState == isRunning
\* `if (!behavior || isRunning) return`, line 74: isRunning is the constant the
\* render that created this start callback captured
StartGuardBlocks == seenRunning

\* variant: only the resolution of init is looked at, a rejection is swallowed
AfterInitSwallow(rejected, stopRequested) ==
  IF ~stopRequested THEN "run" ELSE "ended"
\* lines 88-91 and the catch: what follows `await behavior.init(ctx)`
AfterInit(rejected, stopRequested) ==
  IF rejected THEN "ended"
  ELSE IF ~stopRequested THEN "run" ELSE "ended"

\* variant: the finally block is missing
FinallyKeeps(running) == running
\* finally { setIsRunning(false) }, lines 94-97
FinallySetsRunning(running) == FALSE

\* the catch and finally blocks, lines 92-97
Finish(rejected) ==
  /\ isRunning' = FinallySetsRunning(isRunning)
  /\ logs' = logs \cup (IF rejected THEN {"ERROR", "Stopped"} ELSE {"Stopped"})

\* start(seed), lines 71-100, up to `await behavior.init(ctx)`
start ==
  /\ Len(runs) < MaxRuns
  /\ IF StartGuardBlocks
     THEN /\ lastStart' = "ignored"
          /\ UNCHANGED <<isRunning, stopRef, logs, runs>>
     ELSE /\ lastStart' = "accepted"
          /\ isRunning' = TRUE
          /\ stopRef' = FALSE
          /\ logs' = {"Starting"}
          /\ runs' = Append(runs, [phase |-> "init", initRejected |-> FALSE,
                                   failed |-> FALSE, ranRun |-> FALSE, ops |-> 0,
                                   stopInInit |-> FALSE])
  /\ UNCHANGED seenRunning

\* React renders the component again after setIsRunning: useCallback builds a
\* start callback that captures the new isRunning (dependency list, line 99)
render ==
  /\ seenRunning # isRunning
  /\ seenRunning' = isRunning
  /\ UNCHANGED <<isRunning, stopRef, logs, runs, lastStart>>

\* stop(), lines 102-105
stop ==
  /\ stopRef' = TRUE
  /\ logs' = logs \cup {"Stop requested"}
  /\ runs' = [r \in 1..Len(runs) |->
               IF runs[r].phase = "init"
               THEN [runs[r] EXCEPT !.stopInInit = TRUE] ELSE runs[r]]
  /\ UNCHANGED <<isRunning, seenRunning, lastStart>>

\* the behavior issues a data-access operation during init or run
behaviorOp ==
  \E r \in Active :
    /\ runs[r].ops < MaxRunOps
    /\ runs' = [runs EXCEPT ![r].ops = @ + 1]
    /\ UNCHANGED <<isRunning, seenRunning, stopRef, logs, lastStart>>

\* `await behavior.init(ctx)` settles, lines 88-97
initSettled ==
  \E r \in Active : \E rejected \in BOOLEAN :
    /\ runs[r].phase = "init"
    /\ LET phase == AfterInit(rejected, stopRef)
       IN
       /\ runs' = [runs EXCEPT ![r].phase = phase,
                               ![r].initRejected = rejected,
                               ![r].failed = rejected /\ phase = "ended",
                               ![r].ranRun = (phase = "run")]
       /\ IF phase = "ended"
          THEN Finish(rejected)
          ELSE UNCHANGED <<isRunning, logs>>
    /\ UNCHANGED <<seenRunning, stopRef, lastStart>>

\* `await behavior.run(ctx)` settles, lines 90-97
runSettled ==
  \E r \in Active : \E rejected \in BOOLEAN :
    /\ runs[r].phase = "run"
    /\ runs' = [runs EXCEPT ![r].phase = "ended", ![r].failed = rejected]
    /\ Finish(rejected)
    /\ UNCHANGED <<seenRunning, stopRef, lastStart>>

\* the hook after its first render, lines 59-64
RunnerIdle ==
  /\ isRunning = FALSE
  /\ seenRunning = FALSE
  /\ stopRef = FALSE
  /\ logs = {}
  /\ runs = <<>>
  /\ lastStart = "none"

(* ------------------ reader, writer and mixed run loops ----------------- *)
Kinds == {"reader", "writer", "mixed"}

\* the synchronous reads of the context (getItems ... getItemCount)
ReaderOps == {"getItems", "getItemsByStatus", "getItemsByPriority",
              "getRandomItem", "getItemCount"}
\* mixed: readOp = int(0, 4)
MixedReadOps == {"getItems", "getItemsByStatus", "getItemsByPriority", "getRandomItem"}

\* variant: do ... while, the condition is first looked at after an iteration
PollAfterFirst(stopNow, first) == first \/ ~stopNow
\* variant: the stop predicate is only looked at on entry
PollOnlyAtEntry(stopNow, first) == ~first \/ ~stopNow
\* while (!ctx.shouldStop()), the loop condition of the three run loops
ShouldIterate(stopNow, first) == ~stopNow

\* variant: no try/catch around the operation
OpFailureLeavesRun == TRUE
\* try { ... } catch (err) { success = false; ctx.log(...) }: whether a
\* throwing operation leaves run() as an exception
OpFailureEscapes == FALSE

\* variant: the catch block forgets success = false
SuccessStuck(threw) == TRUE
\* let success = true ... catch { success = false }
SuccessFlag(threw) == ~threw

\* variant: reportMetric is called without looking whether it is there
ReportUnguarded(log, success) == Append(log, success)
\* if (ctx.reportMetric) ctx.reportMetric(Date.now() - opStart, success)
Reported(log, success) == IF hasReport THEN Append(log, success) ELSE log

Issue(op, id) == Append(opLog, [op |-> op, id |-> id, afterStop |-> stopLatched])

\* the end of an iteration: the catch block, reportMetric, then `await ctx.sleep`
EndIteration(threw) ==
  IF threw /\ OpFailureEscapes
  THEN /\ bpc' = "escaped"
       /\ UNCHANGED <<metricLog, iterLog, sleepsAfterStop>>
  ELSE /\ metricLog' = Reported(metricLog, SuccessFlag(threw))
       /\ iterLog' = Append(iterLog,
                       [threw |-> threw,
                        reported |-> SubSeq(metricLog', Len(metricLog) + 1,
                                            Len(metricLog'))])
       /\ sleepsAfterStop' = IF stopLatched THEN sleepsAfterStop + 1
                                             ELSE sleepsAfterStop
       /\ bpc' = "sleep"

\* one iteration of the reader: a synchronous read, lines 189-263 of mixed.ts
ReaderIteration ==
  \E op \in ReaderOps : \E threw \in BOOLEAN :
    /\ opLog' = Issue(op, 0)
    /\ EndIteration(threw)
    /\ UNCHANGED <<knownItems, returnedIds>>

\* `ctx.random.next() < 0.3 || knownItems.length === 0`; below says that the
\* draw was under 0.3
ShouldCreate(below, known) == below \/ known = 0

\* Math.floor(ctx.random.next() * knownItems.length), for a draw of q / Draws
UpdateIndex(q, known) == (q * known) \div Draws

\* the id the data store gives to the item of the next createItem call
NextId == Cardinality({i \in 1..Len(opLog) : opLog[i].op = "createItem"})

\* variant: the id is tracked whether or not the call resolved
KnownAfterAnyOutcome(known, id, rejected) == Append(known, id)
\* `const id = await ctx.createItem(...); knownItems.push({ id, title })`: a
\* rejection leaves the try block before the push
KnownAfter(known, id, rejected) == IF rejected THEN known ELSE Append(known, id)

\* one iteration of the writer up to its await, lines 59-106 of part_007
WriterIteration ==
  \E below \in BOOLEAN : \E q \in 0..(Draws - 1) :
    /\ IF ShouldCreate(below, Len(knownItems))
       THEN opLog' = Issue("createItem", 0)
       ELSE opLog' = Issue("updateItem",
                           knownItems[UpdateIndex(q, Len(knownItems)) + 1])
    /\ bpc' = "op"
    /\ UNCHANGED <<metricLog, knownItems, returnedIds, iterLog, sleepsAfterStop>>

\* one iteration of the mixed behavior up to its await or, when it only
\* reads, to its sleep, lines 48-143 of mixed.ts
MixedIteration ==
  \/ \E op \in MixedReadOps : \E threw \in BOOLEAN :
       /\ opLog' = Issue(op, 0)
       /\ EndIteration(threw)
  \/ /\ opLog' = Issue("createItem", 0)
     /\ bpc' = "op"
     /\ UNCHANGED <<metricLog, iterLog, sleepsAfterStop>>
  \/ \E item \in {0, 1} : \E threw \in BOOLEAN :
       IF threw \/ item = 0
       THEN /\ opLog' = Issue("getRandomItem", 0)
            /\ EndIteration(threw)
       ELSE /\ opLog' = Append(Issue("getRandomItem", 0),
                               [op |-> "updateItem", id |-> item,
                                afterStop |-> stopLatched])
            /\ bpc' = "op"
            /\ UNCHANGED <<metricLog, iterLog, sleepsAfterStop>>

\* the loop condition and, when it holds, the next iteration
LoopHead(first) ==
  /\ polls' = polls + 1
  /\ IF ShouldIterate(stopFlag, first)
     THEN /\ iterations < MaxIter
          /\ iterations' = iterations + 1
          /\ \/ kind = "reader" /\ ReaderIteration
             \/ kind = "writer" /\ WriterIteration
             \/ kind = "mixed" /\ MixedIteration /\ UNCHANGED <<knownItems, returnedIds>>
     ELSE /\ bpc' = "returned"
          /\ UNCHANGED <<iterations, opLog, metricLog, knownItems, returnedIds, iterLog,
                         sleepsAfterStop>>

\* the host calls behavior.run(ctx)
runEnter ==
  /\ bpc = "entry"
  /\ stopAtEntry' = stopFlag
  /\ LoopHead(TRUE)
  /\ UNCHANGED <<kind, stopFlag, hasReport, stopLatched>>

\* `await ctx.createItem(...)` or `await ctx.updateItem(...)` settles
opSettled ==
  \E rejected \in BOOLEAN :
    /\ bpc = "op"
    /\ knownItems' = IF kind = "writer" /\ opLog[Len(opLog)].op = "createItem"
                     THEN KnownAfter(knownItems, NextId, rejected)
                     ELSE knownItems
    /\ returnedIds' = IF ~rejected /\ opLog[Len(opLog)].op = "createItem"
                      THEN returnedIds \cup {NextId}
                      ELSE returnedIds
    /\ EndIteration(rejected)
    /\ UNCHANGED <<kind, stopFlag, hasReport, iterations, opLog, polls, stopAtEntry,
                   stopLatched>>

\* `await ctx.sleep(...)` settles and the loop condition is evaluated again
sleepSettled ==
  /\ bpc = "sleep"
  /\ LoopHead(FALSE)
  /\ UNCHANGED <<kind, stopFlag, hasReport, stopAtEntry, stopLatched>>

\* what a stop request does to the run: ctx.shouldStop() returns true from now on
StopRequested ==
  /\ stopFlag' = TRUE
  /\ stopLatched' = (stopLatched \/ bpc \in {"op", "sleep"})
  /\ UNCHANGED <<kind, bpc, hasReport, iterations, opLog, metricLog, knownItems, returnedIds,
                 iterLog, polls, stopAtEntry, sleepsAfterStop>>

\* a host that keeps its stop flag once set requests the stop
requestStop ==
  /\ ~stopFlag
  /\ StopRequested

\* a context handed to run(): any behavior, reportMetric present or not, and
\* the stop possibly requested before run() is entered
InitBehaviorRun ==
  /\ kind \in Kinds
  /\ bpc = "entry"
  /\ stopFlag \in BOOLEAN
  /\ hasReport \in BOOLEAN
  /\ iterations = 0
  /\ opLog = <<>>
  /\ metricLog = <<>>
  /\ knownItems = <<>>
  /\ returnedIds = {}
  /\ iterLog = <<>>
  /\ polls = 0
  /\ stopAtEntry = FALSE
  /\ stopLatched = FALSE
  /\ sleepsAfterStop = 0

\* the behavior part of the state while another component is explored
BehaviorIdle ==
  /\ kind = "reader"
  /\ bpc = "returned"
  /\ stopFlag = TRUE
  /\ hasReport = FALSE
  /\ iterations = 0
  /\ opLog = <<>>
  /\ metricLog = <<>>
  /\ knownItems = <<>>
  /\ returnedIds = {}
  /\ iterLog = <<>>
  /\ polls = 0
  /\ stopAtEntry = FALSE
  /\ stopLatched = FALSE
  /\ sleepsAfterStop = 0

(* ------------------------- seederBehavior.init ------------------------- *)
\* count, batchSize and created are kept in halves: seederConfigSchema is
\* z.number().min(1).max(...), which accepts 1.5 as well as 2.

\* variant: the schema with .int(), only whole numbers pass
WholeNumber(n2) == n2 >= 2 /\ n2 % 2 = 0
\* seederConfigSchema: z.number().min(1) accepts every number from 1 on
SchemaAccepts(n2) == n2 >= 2

\* Math.min(batchSize, remaining)
MathMin(a, b) == IF a <= b THEN a ELSE b

\* the iterations of `for (let i = 0; i < currentBatchSize; i++)`: the
\* number of integers i >= 0 below currentBatchSize
ItemsBuilt(size2) == (size2 + 1) \div 2

\* variant: the failure branch does not report
SeederReportedOnlySuccess(log, ok) == IF sdHasReport /\ ok THEN Append(log, ok) ELSE log
\* if (ctx.reportMetric) ctx.reportMetric(Date.now() - batchStart, true | false)
SeederReported(log, ok) == IF sdHasReport THEN Append(log, ok) ELSE log

\* variant: the stop predicate is consulted before the first batch only
SeederStopOnlyAtEntry(stopNow, issued) == stopNow /\ issued = 0
\* `if (ctx.shouldStop()) { ...; return; }` at the top of every pass
SeederShouldStop(stopNow, issued) == stopNow

\* what a settled ctx.createItems(batch) left in the data store: the
\* mutation inserts the whole batch or, when it rejects, nothing
StoredAfter(have, batchItems, ok) == IF ok THEN have + batchItems ELSE have

\* `while (created < count)`, the stop check and the batch up to
\* `await ctx.createItems(batch)`
SeederLoopHead ==
  IF created < sdCount
  THEN IF SeederShouldStop(sdStop, Len(batches))
       THEN /\ spc' = "stopped"
            /\ UNCHANGED batches
       ELSE /\ batches' = Append(batches,
                                 ItemsBuilt(MathMin(sdBatchSize, sdCount - created)))
            /\ spc' = "create"
  ELSE /\ spc' = "done"
       /\ UNCHANGED batches

\* the host calls seederBehavior.init(ctx)
seederEnter ==
  /\ spc = "entry"
  /\ SeederLoopHead
  /\ UNCHANGED <<sdCount, sdBatchSize, created, sdMetrics, sdStop, sdHasReport,
                 stored, sdStopAt>>

\* `await ctx.createItems(batch)` settles: reportMetric, created += currentBatchSize
createItemsSettled ==
  \E ok \in BOOLEAN :
    /\ spc = "create"
    /\ sdMetrics' = SeederReported(sdMetrics, ok)
    /\ stored' = StoredAfter(stored, batches[Len(batches)], ok)
    /\ created' = created + MathMin(sdBatchSize, sdCount - created)
    /\ spc' = "sleep"
    /\ UNCHANGED <<sdCount, sdBatchSize, batches, sdStop, sdHasReport, sdStopAt>>

\* `await ctx.sleep(50)` settles
seederSleepSettled ==
  /\ spc = "sleep"
  /\ SeederLoopHead
  /\ UNCHANGED <<sdCount, sdBatchSize, created, sdMetrics, sdStop, sdHasReport,
                 stored, sdStopAt>>

\* the host requests the stop
seederStop ==
  /\ ~sdStop
  /\ sdStop' = TRUE
  /\ sdStopAt' = spc
  /\ UNCHANGED <<sdCount, sdBatchSize, created, batches, sdMetrics, spc,
                 sdHasReport, stored>>

\* the configurations the schema accepts, up to the bounds, and the
\* configuration count = 25, batchSize = 10
SeederConfigs ==
  {c \in [count : 1..MaxCount2, batchSize : 1..MaxBatch2] :
     SchemaAccepts(c.count) /\ SchemaAccepts(c.batchSize)}
    \cup {[count |-> 50, batchSize |-> 20]}

InitSeederRun ==
  /\ \E c \in SeederConfigs : sdCount = c.count /\ sdBatchSize = c.batchSize
  /\ created = 0
  /\ batches = <<>>
  /\ sdMetrics = <<>>
  /\ spc = "entry"
  /\ sdStop \in BOOLEAN
  /\ sdHasReport \in BOOLEAN
  /\ stored = 0
  /\ sdStopAt = IF sdStop THEN "entry" ELSE "none"

SeederIdle ==
  /\ sdCount = 2
  /\ sdBatchSize = 2
  /\ created = 0
  /\ batches = <<>>
  /\ sdMetrics = <<>>
  /\ spc = "done"
  /\ sdStop = FALSE
  /\ sdHasReport = FALSE
  /\ stored = 0
  /\ sdStopAt = "none"

(* ----------------------------- SeededRandom ---------------------------- *)
\* A 32-bit word is kept as two 16-bit halves [h, l]: the bit operations of
\* mulberry32 (^, |, >>>, Math.imul) work on the argument modulo 2^32.
Half == 65536

Word(h, l) == [h |-> h, l |-> l]

RECURSIVE XorBits(_, _, _)
XorBits(a, b, k) ==
  IF k = 0 THEN 0
  ELSE (((a % 2) + (b % 2)) % 2) + 2 * XorBits(a \div 2, b \div 2, k - 1)

RECURSIVE OrBits(_, _, _)
OrBits(a, b, k) ==
  IF k = 0 THEN 0
  ELSE (IF (a % 2) + (b % 2) > 0 THEN 1 ELSE 0) + 2 * OrBits(a \div 2, b \div 2, k - 1)

RECURSIVE Pow2(_)
Pow2(k) == IF k = 0 THEN 1 ELSE 2 * Pow2(k - 1)

\* a ^ b
Xor32(a, b) == Word(XorBits(a.h, b.h, 16), XorBits(a.l, b.l, 16))

\* a | c for a constant c below 2^16
OrSmall(a, c) == Word(a.h, OrBits(a.l, c, 16))

\* a >>> k for 0 < k < 16
Shr(a, k) == Word(a.h \div Pow2(k), (a.l \div Pow2(k)) + ((a.h % Pow2(k)) * Pow2(16 - k)))

\* (a + b) modulo 2^32
Add32(a, b) == Word((a.h + b.h + ((a.l + b.l) \div Half)) % Half, (a.l + b.l) % Half)

\* the product of two 16-bit numbers, as a word
MulWord(high, low) == Word((high + (low \div Half)) % Half, low % Half)

MulJoin(x, y) == MulWord(x \div 256, ((x % 256) * 256) + y)

Mul16(a, b) == MulJoin((a \div 256) * b, (a % 256) * b)

\* Math.imul(a, b): the low 32 bits of the product
ImulJoin(m, x, y) == Word((m.h + x.l + y.l) % Half, m.l)

Imul(a, b) == ImulJoin(Mul16(a.l, b.l), Mul16(a.h, b.l), Mul16(a.l, b.h))

\* 0x6d2b79f5
Increment == Word(27947, 31221)

\* seed += 0x6d2b79f5
SeedAfter(seed) == Add32(seed, Increment)

\* the 32-bit value ((t ^ (t >>> 14)) >>> 0) that mulberry32 divides by 2^32
\* t = Math.imul(t ^ (t >>> 15), t | 1)
Mix1(t) == Imul(Xor32(t, Shr(t, 15)), OrSmall(t, 1))
\* t ^= t + Math.imul(t ^ (t >>> 7), t | 61)
Mix2(t) == Xor32(t, Add32(t, Imul(Xor32(t, Shr(t, 7)), OrSmall(t, 61))))
\* (t ^ (t >>> 14)) >>> 0
Mix3(t) == Xor32(t, Shr(t, 14))

Mulberry32(seed) == Mix3(Mix2(Mix1(SeedAfter(seed))))

\* Math.floor(next() * (max - min)) + min, for next() = w / 2^32
IntOf(w, min, max) ==
  (((w.h * (max - min)) + ((w.l * (max - min)) \div Half)) \div Half) + min

\* what array[i] gives for an index outside the array
Undefined == 0

\* variant: pick has no guard
PickNeverThrows(array) == FALSE
\* if (array.length === 0) throw new Error("Cannot pick from empty array")
PickThrows(array) == Len(array) = 0

\* variant: shuffle returns a copy, [...array]
ShuffleCopy(ref) == ref + 1
\* `return array`: the reference shuffle returns, given the one it received
ShuffleReturn(ref) == ref

\* variant: `seed` is one variable shared by all generators
SharedSeed(own, other) == other
\* `let seed = initialSeed` inside mulberry32: each generator draws from the
\* seed of its own closure, whatever another generator did
DrawFrom(own, other) == own

\* variant: array[i] = array[j] without the other half of the exchange
SwapOverwrite(array, i, j) == [array EXCEPT ![i + 1] = array[j + 1]]
\* [array[i], array[j]] = [array[j], array[i]], indices 0-based
Swap(array, i, j) == [array EXCEPT ![i + 1] = array[j + 1], ![j + 1] = array[i + 1]]

\* the Fisher-Yates loop of shuffle from index i (0-based) downward
RECURSIVE ShuffleLoop(_, _, _, _)
ShuffleLoop(gen, array, i, draws) ==
  IF i > 0
  THEN ShuffleLoop(SeedAfter(gen), Swap(array, i, IntOf(Mulberry32(gen), 0, i + 1)),
                   i - 1, draws + 1)
  ELSE [gen |-> gen, arr |-> array, draws |-> draws]

\* what a call leaves and returns: the seed and the caller's array afterwards,
\* the value returned, the draws consumed
Res(g, a, tag, v, d, threw, ref) ==
  [gen |-> g, arr |-> a, out |-> [kind |-> tag, v |-> v], draws |-> d,
   threw |-> threw, ref |-> ref]

\* array[idx]
At(array, idx) == IF idx + 1 \in DOMAIN array THEN array[idx + 1] ELSE Undefined

ShuffleRes(r) == Res(r.gen, r.arr, "shuffle", r.arr, r.draws, FALSE, ShuffleReturn(1))

\* one call on a generator whose seed is gen and whose caller holds array arr;
\* w is the value the next draw gives
CallWith(gen, arr, c, w) ==
  CASE c.op = "next" -> Res(SeedAfter(gen), arr, "next", <<w.h, w.l>>, 1, FALSE, 0)
    [] c.op = "int" ->
         Res(SeedAfter(gen), arr, "int", <<IntOf(w, c.min, c.max)>>, 1, FALSE, 0)
    [] c.op = "float" ->
         Res(SeedAfter(gen), arr, "float", <<w.h, w.l, c.min, c.max>>, 1, FALSE, 0)
    [] c.op = "pick" ->
         IF PickThrows(c.list)
         THEN Res(gen, arr, "error", <<>>, 0, TRUE, 0)
         ELSE Res(SeedAfter(gen), arr, "pick",
                  <<At(c.list, IntOf(w, 0, Len(c.list)))>>, 1, FALSE, 0)
    [] c.op = "shuffle" -> ShuffleRes(ShuffleLoop(gen, arr, Len(arr) - 1, 0))

Call(gen, arr, c) == CallWith(gen, arr, c, Mulberry32(gen))

DriveBoth(c, ra, rb) ==
  /\ genA' = ra.gen
  /\ genB' = rb.gen
  /\ arrA' = ra.arr
  /\ arrB' = rb.arr
  /\ outA' = Append(outA, ra.out)
  /\ outB' = Append(outB, rb.out)
  /\ lastCall' = [op |-> c.op,
                  list |-> IF c.op = "shuffle" THEN arrA ELSE c.list,
                  draws |-> ra.draws, threw |-> ra.threw,
                  value |-> ra.out.v, ref |-> ra.ref]

DriveSecond(c, ra) == DriveBoth(c, ra, Call(DrawFrom(genB, ra.gen), arrB, c))

\* the same call made on both generators, first on the one, then on the other
Drive(c) ==
  /\ Len(outA) < MaxCalls
  /\ DriveSecond(c, Call(genA, arrA, c))

Args(op, min, max, list) == [op |-> op, min |-> min, max |-> max, list |-> list]

\* the arrays handed to pick
PickLists == {<<>>, <<7>>, <<7, 8, 9>>}

callNext == Drive(Args("next", 0, 0, <<>>))

callInt == \E r \in {<<0, 5>>, <<1, 6>>} : Drive(Args("int", r[1], r[2], <<>>))

callFloat == Drive(Args("float", 0, 10, <<>>))

callPick == \E list \in PickLists : Drive(Args("pick", 0, 0, list))

callShuffle == Drive(Args("shuffle", 0, 0, <<>>))

\* the seeds the two generators are constructed with: 0, 42, 12345, 2^32 - 1
Seeds == {Word(0, 0), Word(0, 42), Word(0, 12345), Word(65535, 65535)}

\* new SeededRandom(seed), twice with the same seed; the callers' arrays
\* hold 1..n
InitRandomPair ==
  /\ genA \in Seeds
  /\ genB = genA
  /\ arrA \in {[i \in 1..n |-> i] : n \in 0..MaxList}
  /\ arrB = arrA
  /\ outA = <<>>
  /\ outB = <<>>
  /\ lastCall = [op |-> "none", list |-> <<>>, draws |-> 0, threw |-> FALSE,
                 value |-> <<>>, ref |-> 0]

RandomIdle ==
  /\ genA = Word(0, 0)
  /\ genB = Word(0, 0)
  /\ arrA = <<>>
  /\ arrB = <<>>
  /\ outA = <<>>
  /\ outB = <<>>
  /\ lastCall = [op |-> "none", list |-> <<>>, draws |-> 0, threw |-> FALSE,
                 value |-> <<>>, ref |-> 0]

(* -------------------- LatencyMetricsCollector.getMetrics --------------- *)
\* a number that is a quotient is kept as [num, den]; den = 0 is a division
\* by zero
Quot(num, den) == [num |-> num, den |-> den]

\* variant: latency statistics over every record
AllRecords(buf) == buf
\* this.records.filter((r) => r.success)
Successful(buf) == SelectSeq(buf, LAMBDA r : r.success)

\* this.records.filter((r) => !r.success)
Failed(buf) == SelectSeq(buf, LAMBDA r : ~r.success)

\* .map((r) => r.latencyMs)
LatenciesOf(buf) == [i \in 1..Len(buf) |-> buf[i].latencyMs]

RECURSIVE InsertAsc(_, _)
InsertAsc(x, q) ==
  IF q = <<>> THEN <<x>>
  ELSE IF x <= Head(q) THEN <<x>> \o q
  ELSE <<Head(q)>> \o InsertAsc(x, Tail(q))

\* .sort((a, b) => a - b)
RECURSIVE SortAsc(_)
SortAsc(q) == IF q = <<>> THEN <<>> ELSE InsertAsc(Head(q), SortAsc(Tail(q)))

\* variant: Math.ceil(arr.length * p), without the - 1
PercentileIndexNoShift(n, pct) == (n * pct + 99) \div 100
\* Math.ceil(arr.length * p) - 1, p given in percent
PercentileIndex(n, pct) == ((n * pct + 99) \div 100) - 1

\* Math.max(0, Math.min(idx, arr.length - 1))
Clamp(idx, n) == IF idx < 0 THEN 0 ELSE IF idx > n - 1 THEN n - 1 ELSE idx

\* the percentile closure of getMetrics, arr sorted ascending
Percentile(arr, pct) ==
  IF Len(arr) = 0 THEN 0
  ELSE arr[Clamp(PercentileIndex(Len(arr), pct), Len(arr)) + 1]

RECURSIVE SumOf(_)
SumOf(q) == IF q = <<>> THEN 0 ELSE Head(q) + SumOf(Tail(q))

\* variant: the mean without its guard for the empty array
MeanUnguarded(arr) == Quot(SumOf(arr), Len(arr))
\* the mean closure of getMetrics
Mean(arr) == IF Len(arr) = 0 THEN Quot(0, 1) ELSE Quot(SumOf(arr), Len(arr))

\* Math.max(1, (now - this.startTime) / 1000), as a quotient over 1000
WindowSeconds(now, startTime) ==
  IF now - startTime > 1000 THEN Quot(now - startTime, 1000) ELSE Quot(1000, 1000)

\* this.records.length / windowSeconds
OpsPerSecond(n, window) == Quot(n * window.den, window.num)

\* computeTypeMetrics(type), given the records of the type
TypeMetricsOf(typeRecords, typeLatencies) ==
  [count |-> Len(typeRecords),
   successCount |-> Len(typeLatencies),
   errorCount |-> Len(typeRecords) - Len(typeLatencies),
   latencyMean |-> Mean(typeLatencies),
   latencyP95 |-> Percentile(typeLatencies, 95)]

OfType(buf, type) == SelectSeq(buf, LAMBDA r : r.type = type)

computeTypeMetrics(buf, type) ==
  TypeMetricsOf(OfType(buf, type), SortAsc(LatenciesOf(Successful(OfType(buf, type)))))

\* the object getMetrics returns, given the sorted latencies it computed
MetricsOf(buf, latencies, now, startTime) ==
  [totalCount |-> Len(buf),
   successCount |-> Len(Successful(buf)),
   errorCount |-> Len(Failed(buf)),
   latencyP50 |-> Percentile(latencies, 50),
   latencyP95 |-> Percentile(latencies, 95),
   latencyP99 |-> Percentile(latencies, 99),
   latencyMin |-> IF Len(latencies) > 0 THEN latencies[1] ELSE 0,
   latencyMax |-> IF Len(latencies) > 0 THEN latencies[Len(latencies)] ELSE 0,
   latencyMean |-> Mean(latencies),
   opsPerSecond |-> OpsPerSecond(Len(buf), WindowSeconds(now, startTime)),
   byType |-> [query |-> computeTypeMetrics(buf, "query"),
               mutation |-> computeTypeMetrics(buf, "mutation"),
               action |-> computeTypeMetrics(buf, "action")]]

\* getMetrics()
getMetrics(buf, now, startTime) ==
  MetricsOf(buf, SortAsc(LatenciesOf(Successful(buf))), now, startTime)

(* ----------------- the LatencyMetricsCollector as an object ------------- *)
\* variant: clearRecords also restarts the throughput window
StartRestarted(startTime, now) == now
\* clearRecords() does not assign this.startTime
StartAfterClear(startTime, now) == startTime

\* variant: reset keeps the throughput window
StartKept(startTime, now) == startTime
\* reset(): this.startTime = Date.now()
StartAfterReset(startTime, now) == now

\* reset(): this.records = []
ResetRecords(buf) == <<>>

\* what a method without a return value gives
Void == 0

Latencies == {10, 20, 30}

Samples == [latencyMs : Latencies, success : BOOLEAN, type : {"query", "mutation"}]

Ok(ms) == [latencyMs |-> ms, success |-> TRUE, type |-> "query"]

Err(ms) == [latencyMs |-> ms, success |-> FALSE, type |-> "mutation"]

\* contents the collector is started with besides the empty one: five
\* successful samples, and five samples of which two failed
ExampleBuffers ==
  {<<Ok(10), Ok(20), Ok(30), Ok(40), Ok(50)>>,
   <<Ok(50), Err(5), Ok(10), Err(90), Ok(30)>>}

colRecord ==
  \E rec \in Samples :
    /\ Len(colRecords) < MaxRecords
    /\ colRecords' = CollectorRecord(colRecords, rec)
    /\ recordedSince' = Append(recordedSince, rec)
    /\ colResult' = Void
    /\ colOp' = "record"
    /\ UNCHANGED <<colStartTime, clock>>

colGetRecords ==
  /\ colResult' = getRecords(colRecords)
  /\ colOp' = "getRecords"
  /\ UNCHANGED <<colRecords, colStartTime, clock, recordedSince>>

colGetCount ==
  /\ colResult' = getCount(colRecords)
  /\ colOp' = "getCount"
  /\ UNCHANGED <<colRecords, colStartTime, clock, recordedSince>>

colClearRecords ==
  /\ colRecords' = clearRecords(colRecords)
  /\ colStartTime' = StartAfterClear(colStartTime, clock)
  /\ recordedSince' = <<>>
  /\ colResult' = Void
  /\ colOp' = "clearRecords"
  /\ UNCHANGED clock

colReset ==
  /\ colRecords' = ResetRecords(colRecords)
  /\ colStartTime' = StartAfterReset(colStartTime, clock)
  /\ recordedSince' = <<>>
  /\ colResult' = Void
  /\ colOp' = "reset"
  /\ UNCHANGED clock

colGetMetrics ==
  /\ colResult' = getMetrics(colRecords, clock, colStartTime)
  /\ colOp' = "getMetrics"
  /\ UNCHANGED <<colRecords, colStartTime, clock, recordedSince>>

\* a second passes
colTick ==
  /\ clock < MaxTicks * 1000
  /\ clock' = clock + 1000
  /\ UNCHANGED <<colRecords, colStartTime, colResult, colOp, recordedSince>>

\* new LatencyMetricsCollector(), possibly after the samples of an example
\* buffer were recorded
InitCollectorRun ==
  /\ colRecords \in {<<>>} \cup ExampleBuffers
  /\ colStartTime = 0
  /\ clock = 0
  /\ colResult = Void
  /\ colOp = "new"
  /\ recordedSince = colRecords

CollectorIdle ==
  /\ colRecords = <<>>
  /\ colStartTime = 0
  /\ clock = 0
  /\ colResult = Void
  /\ colOp = "new"
  /\ recordedSince = <<>>

(* ------------- mixedBehavior.run replayed from one seed ---------------- *)
\* ctx.random.next() < 0.7 for next() = w / 2^32: w <= 3006477107
BelowSeventy(w) == w.h < 45875 \/ (w.h = 45875 /\ w.l <= 13107)

OpRec(op, args) == [op |-> op, args |-> args]

\* TAGS, by position
TagIds == <<1, 2, 3, 4, 5>>

\* variant: the title carries no clock value
TitleStampNone(now) == 0
\* `#${Date.now() % 10000}` in the title of a created item (mixed.ts line 90)
TitleStamp(now) == now

\* variant: getRandomItem takes the first item
RandomItemFirst(mathRandom) == 0
\* Math.floor(Math.random() * cachedItems.length) in getRandomItem
\* (context.ts line 151, App.tsx line 136): an index Math.random chose
RandomItemIndex(mathRandom) == mathRandom

\* the end of an iteration: `ctx.sleep(ctx.random.int(30, 150))`
SleepAfter(gen, ops) ==
  [gen |-> SeedAfter(gen),
   ops |-> Append(ops, OpRec("sleep", <<IntOf(Mulberry32(gen), 30, 150)>>))]

\* the read branch, mixed.ts lines 58-84, after readOp = int(0, 4)
ReadBranch(gen, readOp) ==
  CASE readOp = 0 -> SleepAfter(gen, <<OpRec("getItems", <<>>)>>)
    [] readOp = 1 ->
         SleepAfter(SeedAfter(gen),
                    <<OpRec("getItemsByStatus", <<IntOf(Mulberry32(gen), 0, 3)>>)>>)
    [] readOp = 2 ->
         SleepAfter(SeedAfter(gen),
                    <<OpRec("getItemsByPriority", <<IntOf(Mulberry32(gen), 1, 6)>>)>>)
    [] OTHER -> SleepAfter(gen, <<OpRec("getRandomItem", <<>>)>>)

\* createItem with the title, status and priority drawn and the tags
\* shuffled (r): tags = shuffled.slice(0, int(0, 3))
CreateWith(title, stamp, status, priority, r) ==
  SleepAfter(SeedAfter(r.gen),
             <<OpRec("createItem",
                     <<title, stamp, status, priority>>
                       \o SubSeq(r.arr, 1, IntOf(Mulberry32(r.gen), 0, 3)))>>)

\* case 0 of the write branch, mixed.ts lines 88-101
CreateBranch(gen, now) ==
  CreateWith(IntOf(Mulberry32(gen), 0, 5), TitleStamp(now),
             IntOf(Mulberry32(SeedAfter(gen)), 0, 3),
             IntOf(Mulberry32(SeedAfter(SeedAfter(gen))), 1, 6),
             ShuffleLoop(SeedAfter(SeedAfter(SeedAfter(gen))), TagIds,
                         Len(TagIds) - 1, 0))

\* cases 1 and 2 of the write branch, mixed.ts lines 103-118: the items of
\* the cache have the ids 1..items
UpdateBranch(gen, mathRandom, items) ==
  IF items = 0
  THEN SleepAfter(gen, <<OpRec("getRandomItem", <<>>)>>)
  ELSE SleepAfter(SeedAfter(SeedAfter(gen)),
                  <<OpRec("getRandomItem", <<>>),
                    OpRec("updateItem",
                          <<RandomItemIndex(mathRandom) + 1,
                            IntOf(Mulberry32(gen), 0, 3),
                            IntOf(Mulberry32(SeedAfter(gen)), 1, 6)>>)>>)

\* the write branch after writeOp = int(0, 3)
WriteBranch(gen, writeOp, now, mathRandom, items) ==
  IF writeOp = 0
  THEN CreateBranch(gen, now)
  ELSE UpdateBranch(gen, mathRandom, items)

\* one iteration of the loop of mixedBehavior.run, mixed.ts lines 47-143, with
\* operations that resolve: the seed afterwards and the operations issued
MixedOps(gen, now, mathRandom, items) ==
  IF BelowSeventy(Mulberry32(gen))
  THEN ReadBranch(SeedAfter(SeedAfter(gen)),
                  IntOf(Mulberry32(SeedAfter(gen)), 0, 4))
  ELSE WriteBranch(SeedAfter(SeedAfter(gen)),
                   IntOf(Mulberry32(SeedAfter(gen)), 0, 3), now, mathRandom, items)

\* what Math.random can make getRandomItem choose among `items` items
MathRandomChoices(items) == IF items = 0 THEN {0} ELSE 0..(items - 1)

IterateA(r) ==
  /\ rpGenA' = r.gen
  /\ rpOpsA' = rpOpsA \o r.ops
  /\ rpIterA' = rpIterA + 1
  /\ UNCHANGED <<rpGenB, rpOpsB, rpIterB, rpItems>>

IterateB(r) ==
  /\ rpGenB' = r.gen
  /\ rpOpsB' = rpOpsB \o r.ops
  /\ rpIterB' = rpIterB + 1
  /\ UNCHANGED <<rpGenA, rpOpsA, rpIterA, rpItems>>

\* the first run makes one iteration
replayA ==
  \E now \in 0..MaxStamp : \E mathRandom \in MathRandomChoices(rpItems) :
    /\ rpIterA < MaxIter
    /\ IterateA(MixedOps(rpGenA, now, mathRandom, rpItems))

\* the second run makes one iteration
replayB ==
  \E now \in 0..MaxStamp : \E mathRandom \in MathRandomChoices(rpItems) :
    /\ rpIterB < MaxIter
    /\ IterateB(MixedOps(rpGenB, now, mathRandom, rpItems))

\* two contexts built with the same seed over the same cache
InitReplayPair ==
  /\ rpGenA \in {Word(0, n) : n \in 0..MaxSeed}
  /\ rpGenB = rpGenA
  /\ rpOpsA = <<>>
  /\ rpOpsB = <<>>
  /\ rpIterA = 0
  /\ rpIterB = 0
  /\ rpItems \in 0..MaxCache

ReplayIdle ==
  /\ rpGenA = Word(0, 0)
  /\ rpGenB = Word(0, 0)
  /\ rpOpsA = <<>>
  /\ rpOpsB = <<>>
  /\ rpIterA = 0
  /\ rpIterB = 0
  /\ rpItems = 0

LateIdle == TrackedIdle /\ ItemsContextIdle /\ ReplayIdle

(* --------------------------- specifications ---------------------------- *)
\* the components added after the run loops, while another one is explored
RestIdle == SeederIdle /\ RandomIdle /\ CollectorIdle /\ LateIdle

\* the reporter alone
ReporterStep ==
  \/ record /\ UNCHANGED <<runnerVars, behVars, restVars>>
  \/ timerFlush /\ UNCHANGED <<runnerVars, behVars, restVars>>
  \/ flush /\ UNCHANGED <<runnerVars, behVars, restVars>>
  \/ reset /\ UNCHANGED <<runnerVars, behVars, restVars>>
  \/ unmount /\ UNCHANGED <<runnerVars, behVars, restVars>>
  \/ disable /\ UNCHANGED <<runnerVars, behVars, restVars>>
  \/ enable /\ UNCHANGED <<runnerVars, behVars, restVars>>
  \/ onFlushSettled /\ UNCHANGED <<runnerVars, behVars, restVars>>
  \/ postSettled /\ UNCHANGED <<runnerVars, behVars, restVars>>

InitReporterAlone == InitReporter /\ RunnerIdle /\ BehaviorIdle /\ RestIdle

SpecReporter == InitReporterAlone /\ [][ReporterStep]_vars

\* the runner alone
RunnerStep ==
  \/ start /\ UNCHANGED <<repVars, behVars, restVars>>
  \/ render /\ UNCHANGED <<repVars, behVars, restVars>>
  \/ stop /\ UNCHANGED <<repVars, behVars, restVars>>
  \/ behaviorOp /\ UNCHANGED <<repVars, behVars, restVars>>
  \/ initSettled /\ UNCHANGED <<repVars, behVars, restVars>>
  \/ runSettled /\ UNCHANGED <<repVars, behVars, restVars>>

InitRunner == RunnerIdle /\ ReporterIdle /\ BehaviorIdle /\ RestIdle

SpecRunner == InitRunner /\ [][RunnerStep]_vars

\* one run of a behavior loop under a host that may request the stop
RunEnterStep == runEnter /\ UNCHANGED <<repVars, runnerVars, restVars>>
OpSettledStep == opSettled /\ UNCHANGED <<repVars, runnerVars, restVars>>
SleepSettledStep == sleepSettled /\ UNCHANGED <<repVars, runnerVars, restVars>>
RequestStopStep == requestStop /\ UNCHANGED <<repVars, runnerVars, restVars>>

BehaviorStep ==
  \/ RunEnterStep
  \/ OpSettledStep
  \/ SleepSettledStep
  \/ RequestStopStep

InitBehavior == InitBehaviorRun /\ ReporterIdle /\ RunnerIdle /\ RestIdle

SpecBehavior == InitBehavior /\ [][BehaviorStep]_vars

\* the loop of the first run started through useMinionRunner: ctx.shouldStop
\* is () => stopRef.current (part_002 line 83)
HostedStart ==
  /\ start
  /\ stopFlag' = stopRef'
  /\ UNCHANGED <<kind, bpc, hasReport, iterations, opLog, metricLog, knownItems, returnedIds,
                 iterLog, polls, stopAtEntry, stopLatched, sleepsAfterStop>>
  /\ UNCHANGED <<repVars, restVars>>

HostedRender == render /\ UNCHANGED <<repVars, behVars, restVars>>

HostedStop == stop /\ StopRequested /\ UNCHANGED <<repVars, restVars>>

\* init settles; `await behavior.run(ctx)` of the first run enters the loop in
\* the same synchronous segment
HostedInitSettled ==
  /\ initSettled
  /\ IF runs[1].phase = "init" /\ runs'[1].phase = "run"
     THEN runEnter
     ELSE UNCHANGED behVars
  /\ UNCHANGED <<repVars, restVars>>

\* the promise of run() settles: for the first run when its loop has returned
\* or thrown
HostedRunSettled ==
  /\ runSettled
  /\ (runs[1].phase = "run" /\ runs'[1].phase = "ended")
       => (bpc \in {"returned", "escaped"} /\ runs'[1].failed = (bpc = "escaped"))
  /\ UNCHANGED <<repVars, behVars, restVars>>

HostedStep ==
  \/ HostedStart
  \/ HostedRender
  \/ HostedStop
  \/ HostedInitSettled
  \/ HostedRunSettled
  \/ OpSettledStep
  \/ SleepSettledStep

InitHostedRun == InitBehaviorRun /\ ~stopFlag /\ RunnerIdle /\ ReporterIdle /\ RestIdle

SpecHostedRun == InitHostedRun /\ [][HostedStep]_vars

\* one seederBehavior.init under a host that may request the stop
SeederEnterStep == seederEnter /\ UNCHANGED <<lateVars, repVars, runnerVars, behVars, rngVars, colVars>>
CreateItemsSettledStep == createItemsSettled /\ UNCHANGED <<lateVars, repVars, runnerVars, behVars, rngVars, colVars>>
SeederSleepSettledStep == seederSleepSettled /\ UNCHANGED <<lateVars, repVars, runnerVars, behVars, rngVars, colVars>>
SeederStopStep == seederStop /\ UNCHANGED <<lateVars, repVars, runnerVars, behVars, rngVars, colVars>>

SeederStep ==
  \/ SeederEnterStep
  \/ CreateItemsSettledStep
  \/ SeederSleepSettledStep
  \/ SeederStopStep

InitSeeder ==
  /\ InitSeederRun /\ ReporterIdle /\ RunnerIdle /\ BehaviorIdle /\ RandomIdle
  /\ CollectorIdle /\ LateIdle

SpecSeeder == InitSeeder /\ [][SeederStep]_vars

\* two generators with the same seed under the same calls
CallNextStep == callNext /\ UNCHANGED <<lateVars, repVars, runnerVars, behVars, sdVars, colVars>>
CallIntStep == callInt /\ UNCHANGED <<lateVars, repVars, runnerVars, behVars, sdVars, colVars>>
CallFloatStep == callFloat /\ UNCHANGED <<lateVars, repVars, runnerVars, behVars, sdVars, colVars>>
CallPickStep == callPick /\ UNCHANGED <<lateVars, repVars, runnerVars, behVars, sdVars, colVars>>
CallShuffleStep == callShuffle /\ UNCHANGED <<lateVars, repVars, runnerVars, behVars, sdVars, colVars>>

RandomStep ==
  \/ CallNextStep
  \/ CallIntStep
  \/ CallFloatStep
  \/ CallPickStep
  \/ CallShuffleStep

InitRandom ==
  /\ InitRandomPair /\ ReporterIdle /\ RunnerIdle /\ BehaviorIdle /\ SeederIdle
  /\ CollectorIdle /\ LateIdle

SpecRandom == InitRandom /\ [][RandomStep]_vars

\* one collector under its callers
ColRecordStep == colRecord /\ UNCHANGED <<lateVars, repVars, runnerVars, behVars, sdVars, rngVars>>
ColGetRecordsStep == colGetRecords /\ UNCHANGED <<lateVars, repVars, runnerVars, behVars, sdVars, rngVars>>
ColGetCountStep == colGetCount /\ UNCHANGED <<lateVars, repVars, runnerVars, behVars, sdVars, rngVars>>
ColClearRecordsStep == colClearRecords /\ UNCHANGED <<lateVars, repVars, runnerVars, behVars, sdVars, rngVars>>
ColResetStep == colReset /\ UNCHANGED <<lateVars, repVars, runnerVars, behVars, sdVars, rngVars>>
ColGetMetricsStep == colGetMetrics /\ UNCHANGED <<lateVars, repVars, runnerVars, behVars, sdVars, rngVars>>
ColTickStep == colTick /\ UNCHANGED <<lateVars, repVars, runnerVars, behVars, sdVars, rngVars>>

CollectorStep ==
  \/ ColRecordStep
  \/ ColGetRecordsStep
  \/ ColGetCountStep
  \/ ColClearRecordsStep
  \/ ColResetStep
  \/ ColGetMetricsStep
  \/ ColTickStep

InitCollector ==
  /\ InitCollectorRun /\ ReporterIdle /\ RunnerIdle /\ BehaviorIdle /\ SeederIdle
  /\ RandomIdle /\ LateIdle

SpecCollector == InitCollector /\ [][CollectorStep]_vars

\* tracked calls settling around a reporter whose disabled prop is toggled;
\* the deliveries of the flushes they start are left pending
TrackedStep ==
  \/ trackedCall /\ UNCHANGED <<runnerVars, behVars, sdVars, rngVars, colVars, subVars, rplVars>>
  \/ trackedSettled /\ UNCHANGED <<runnerVars, behVars, sdVars, rngVars, colVars, subVars, rplVars>>
  \/ disable /\ UNCHANGED <<runnerVars, behVars, restVars>>
  \/ enable /\ UNCHANGED <<runnerVars, behVars, restVars>>

\* the provider has no onRecord observer here
InitTracked == InitReporter /\ ~cfg.onRecord /\ RunnerIdle /\ BehaviorIdle /\ RestIdle

SpecTracked == InitTracked /\ [][TrackedStep]_vars

\* one headless items context under its worker and its client
ItemsContextStep ==
  \/ ctxConfigure /\ UNCHANGED <<repVars, runnerVars, behVars, sdVars, rngVars, colVars, trkVars, rplVars>>
  \/ ctxSetup /\ UNCHANGED <<repVars, runnerVars, behVars, sdVars, rngVars, colVars, trkVars, rplVars>>
  \/ ctxRead /\ UNCHANGED <<repVars, runnerVars, behVars, sdVars, rngVars, colVars, trkVars, rplVars>>
  \/ ctxUpdate /\ UNCHANGED <<repVars, runnerVars, behVars, sdVars, rngVars, colVars, trkVars, rplVars>>

InitItems ==
  /\ InitItemsContext /\ ReporterIdle /\ RunnerIdle /\ BehaviorIdle /\ SeederIdle
  /\ RandomIdle /\ CollectorIdle /\ TrackedIdle /\ ReplayIdle

SpecItemsContext == InitItems /\ [][ItemsContextStep]_vars

\* two runs of the mixed behavior from the same seed
ReplayStep ==
  \/ replayA /\ UNCHANGED <<repVars, runnerVars, behVars, sdVars, rngVars, colVars, trkVars, subVars>>
  \/ replayB /\ UNCHANGED <<repVars, runnerVars, behVars, sdVars, rngVars, colVars, trkVars, subVars>>

InitReplay ==
  /\ InitReplayPair /\ ReporterIdle /\ RunnerIdle /\ BehaviorIdle /\ SeederIdle
  /\ RandomIdle /\ CollectorIdle /\ TrackedIdle /\ ItemsContextIdle

SpecReplay == InitReplay /\ [][ReplayStep]_vars

(* ------------------- properties of the reporter ------------------------ *)
Batch(f) == Range(flushes[f].batch)
Batched == UNION {Batch(f) : f \in 1..Len(flushes)}
SinkSamples == UNION {Range(onFlushLog[i]) : i \in 1..Len(onFlushLog)}
PostedSamples == UNION {Range(p.records) : p \in postLog}

\* C1: under every interleaving of record, timer, size-triggered, manual and
\* shutdown flushes, no sample is in the batch of two flushes, and neither the
\* onFlush sink nor the network target is handed a sample twice.
C1_NoSampleDeliveredTwice ==
  /\ \A f, g \in 1..Len(flushes) : f # g => Batch(f) \cap Batch(g) = {}
  /\ \A i, j \in 1..Len(onFlushLog) :
       i # j => Range(onFlushLog[i]) \cap Range(onFlushLog[j]) = {}
  /\ \A p, q \in postLog : p # q => Range(p.records) \cap Range(q.records) = {}

\* a shutdown flush took a batch while an earlier flush was still delivering
C1_Witness ==
  /\ lastOp = "cleanup"
  /\ Len(flushes) >= 2
  /\ flushes[1].pc \in {"onFlush", "post"}
  /\ Len(onFlushLog) = Len(flushes)

\* C2: a sample recorded while a flush is delivering is in no batch of a flush
\* begun before it was recorded; it is in the buffer until the next flush that
\* runs takes it into its batch (or reset() discards the buffer).
C2_RecordedDuringFlushKept ==
  \A s \in 1..Len(recInfo) :
    recInfo[s].during =>
      /\ \A f \in 1..Len(flushes) : f < recInfo[s].next => s \notin Batch(f)
      /\ \/ s \in Range(records)
         \/ s \in resetDropped
         \/ recInfo[s].next <= Len(flushes) /\ s \in Batch(recInfo[s].next)

\* a sample recorded during a delivery went out with the next flush, while
\* the flush it raced has finished
C2_Witness ==
  \E s \in 1..Len(recInfo) :
    /\ recInfo[s].during
    /\ recInfo[s].next <= Len(flushes)
    /\ s \in Batch(recInfo[s].next)
    /\ flushes[recInfo[s].next - 1].pc = "resolved"

\* C3: a flush() call that follows another flush() call with no record in
\* between finds the buffer empty, starts no flush, invokes neither onFlush
\* nor fetch and leaves the collector as it is.
C3_SecondFlushIsNoop ==
  /\ [](callsSinceRecord >= 1 => records = <<>>)
  /\ [][(callsSinceRecord >= 1 /\ lastOp' \in {"flush", "timer", "cleanup"})
          => /\ records' = records
             /\ flushes' = flushes
             /\ onFlushLog' = onFlushLog
             /\ postLog' = postLog]_vars

\* one record, then two flush() calls: exactly one delivery
C3_Witness ==
  /\ callsSinceRecord = 2
  /\ lastOp = "flush"
  /\ nextSample = 2
  /\ Len(flushes) = 1
  /\ Len(onFlushLog) = 1

\* C4: a sink that throws or rejects, or a POST that fails, never makes
\* flush() reject; the step that handles the failure logs it and leaves the
\* buffer alone, so no batch returns to the buffer, and the interval of an
\* enabled, mounted reporter stays armed.
C4_DeliveryFailureContained ==
  /\ [](\A f \in 1..Len(flushes) :
          /\ flushes[f].pc # "rejected"
          /\ Batch(f) \cap Range(records) = {})
  /\ []((mounted /\ ~disabled) => flushTimer)
  /\ [](failedAt # 0 => errorLog # {})
  /\ [][lastOp' = "failed" => records' = records]_vars

\* after a failed delivery a later flush took a batch and delivered it
C4_Witness ==
  /\ failedAt # 0
  /\ Len(flushes) > failedAt
  /\ flushes[failedAt].pc = "resolved"
  /\ flushes[Len(flushes)].pc = "resolved"
  /\ cfg.onFlush /\ cfg.reportUrl
  /\ lastOp = "other"

\* C5: the cleanup of the effect disarms the interval, so no timer flush runs
\* while the reporter is stopped, and its final flush takes every sample that
\* was buffered into a batch and hands it to the first configured sink.
C5_StopDisarmsAndFlushes ==
  /\ [](stopped =>
          /\ ~flushTimer
          /\ stopSnapshot \subseteq Batched
          /\ cfg.onFlush => stopSnapshot \subseteq SinkSamples
          /\ (~cfg.onFlush /\ cfg.reportUrl) => stopSnapshot \subseteq PostedSamples)
  /\ [][lastOp' = "timer" => (flushTimer /\ ~stopped /\ ~stopped')]_vars

\* the reporter was unmounted with a sample in its buffer
C5_Witness ==
  /\ stopped
  /\ ~mounted
  /\ lastOp = "cleanup"
  /\ stopSnapshot # {}
  /\ cfg.onFlush

(* -------------------- properties of the runner ------------------------- *)
\* C6: at most one behavior run (init followed by run) is in progress per
\* runner at any time.
C6_AtMostOneRunInProgress == Cardinality(Active) <= 1

\* C10: when init or run rejects, the step that handles it logs an ERROR line
\* and sets isRunning to false; a run whose init rejected never has its run
\* phase invoked; a run that has ended issues no further operation.
C10_RunFailureHandled ==
  /\ [](\A r \in 1..Len(runs) :
          /\ runs[r].initRejected => (~runs[r].ranRun /\ runs[r].phase = "ended")
          /\ runs[r].failed => runs[r].phase = "ended")
  /\ [][\A r \in 1..Len(runs) :
          /\ (runs[r].phase # "ended" /\ (runs'[r].failed \/ runs'[r].initRejected))
               => ("ERROR" \in logs' /\ ~isRunning' /\ runs'[r].phase = "ended")
          /\ runs[r].phase = "ended" => runs'[r] = runs[r]]_vars

\* init rejected, the run phase was skipped, and after the next render a later
\* start() was accepted (it cleared the ERROR line)
C10_Witness ==
  /\ Len(runs) = 2
  /\ runs[1].initRejected /\ runs[1].failed /\ ~runs[1].ranRun
  /\ runs[2].phase = "init"
  /\ lastStart = "accepted"
  /\ "ERROR" \notin logs

(* ------------------- properties of the run loops ----------------------- *)
\* C7: a run loop (reader, writer, mixed) entered with the stop predicate
\* already true issues no data-access operation, reports no sample and
\* returns: one evaluation of the loop condition, no iteration.
C7_StopAtEntryDoesNothing ==
  (stopAtEntry /\ bpc # "entry")
    => /\ bpc = "returned"
       /\ opLog = <<>>
       /\ metricLog = <<>>
       /\ iterations = 0
       /\ polls = 1

C7_Witness ==
  /\ stopAtEntry
  /\ bpc = "returned"
  /\ hasReport
  /\ kind = "mixed"

\* C8: the loop evaluates the stop predicate once per iteration, and once the
\* stop has been requested during the loop no operation is issued any more and
\* at most one sleep is begun.
C8_StopEndsTheLoop ==
  /\ bpc # "escaped" => polls = iterations + (IF bpc = "returned" THEN 1 ELSE 0)
  /\ \A i \in 1..Len(opLog) : ~opLog[i].afterStop
  /\ sleepsAfterStop <= 1

\* C9 as stated: every iteration whose operation threw made exactly one
\* reportMetric call, with success = false, and the failure stayed inside run().
C9_FailureAlwaysReported ==
  /\ bpc # "escaped"
  /\ \A i \in 1..Len(iterLog) : iterLog[i].threw => iterLog[i].reported = <<FALSE>>

\* C9, amended: an operation that throws is caught inside the iteration and
\* does not escape run(); the iteration makes exactly one reportMetric call,
\* with success = false, when the context provides the optional reportMetric
\* and none when it does not; the iteration goes on to its sleep, after which
\* the loop condition decides about the next iteration.
C9_FailureCaughtAndReported ==
  /\ [](/\ bpc # "escaped"
        /\ \A i \in 1..Len(iterLog) :
             iterLog[i].threw
               => iterLog[i].reported = IF hasReport THEN <<FALSE>> ELSE <<>>)
  /\ [][(Len(iterLog') > Len(iterLog) /\ iterLog'[Len(iterLog')].threw)
          => bpc' = "sleep"]_vars
  /\ [][(bpc = "sleep" /\ ~stopFlag /\ polls' > polls)
          => iterations' = iterations + 1]_vars

C9_Witness ==
  /\ Len(iterLog) >= 1
  /\ iterLog[1].threw
  /\ hasReport
  /\ metricLog[1] = FALSE
  /\ iterations = 2
  /\ bpc = "op"

(* --------------------- properties of the seeder ------------------------ *)
RECURSIVE SumSeq(_)
SumSeq(q) == IF q = <<>> THEN 0 ELSE Head(q) + SumSeq(Tail(q))

\* ceil(a / b) for positive b
CeilDiv(a, b) == (a + b - 1) \div b

\* C11: a seeder that ran to completion, with reportMetric provided, issued
\* ceil(count / batchSize) createItems calls, each of batchSize items except a
\* smaller last remainder, count items in all, and reported one sample per
\* batch (count, batchSize in halves: an item count n is 2n halves).
C11_SeederBatches ==
  (spc = "done" /\ sdHasReport)
    => /\ Len(batches) = CeilDiv(sdCount, sdBatchSize)
       /\ \A i \in 1..Len(batches) :
            2 * batches[i] = IF i < Len(batches)
                             THEN sdBatchSize
                             ELSE sdCount - (Len(batches) - 1) * sdBatchSize
       /\ 2 * SumSeq(batches) = sdCount
       /\ Len(sdMetrics) = Len(batches)

\* C21: once the stop is requested while init is between its entry and its
\* return, init issues no further batch (the createItems call in flight is the
\* last one), the next pass of the loop returns, and nothing is taken out of
\* the data store: the items of the earlier batches stay.
C21_StopAtNextBatchBoundary ==
  [][/\ sdStop => batches' = batches
     /\ (sdStop /\ spc = "sleep") => spc' \in {"stopped", "done"}
     /\ (spc = "sleep" /\ spc' = "stopped") => sdStop
     /\ stored' >= stored
     /\ spc \in {"stopped", "done"} => (spc' = spc /\ stored' = stored)]_vars

\* a stop requested while a batch was in flight ended init before the target,
\* with the items of the batches so far in the data store
C21_Witness ==
  /\ spc = "stopped"
  /\ sdStopAt \in {"create", "sleep"}
  /\ Len(batches) >= 1
  /\ stored >= 1
  /\ created < sdCount

\* C27: when init has returned from the end of its loop and no stop was
\* requested, the data store holds exactly `count` items of the seeder
\* (stored items against count in halves).
C27_StoredEqualsTarget ==
  (spc = "done" /\ ~sdStop) => 2 * stored = sdCount

\* C22: a start during whose init stop() was called never has its run phase
\* invoked: when its init settles the start ends.
C22_StopDuringInitSkipsRun ==
  \A r \in 1..Len(runs) : runs[r].stopInInit => ~runs[r].ranRun

\* C23: every updateItem the writer issued targets an id that a resolved
\* createItem of the same run had returned before, the writer tracks exactly
\* those ids, and an iteration that starts with no tracked id issues a
\* createItem.
C23_WriterUpdatesOwnItems ==
  /\ [](kind = "writer" =>
         /\ Range(knownItems) \subseteq returnedIds
         /\ \A i \in 1..Len(opLog) :
              opLog[i].op = "updateItem" => opLog[i].id \in returnedIds)
  /\ [][(kind = "writer" /\ Len(knownItems) = 0 /\ Len(opLog') > Len(opLog))
          => opLog'[Len(opLog')].op = "createItem"]_vars

\* the writer updated an item it had created, and one of its operations failed
C23_Witness ==
  /\ kind = "writer"
  /\ \E i \in 1..Len(opLog) : opLog[i].op = "updateItem"
  /\ \E i \in 1..Len(iterLog) : iterLog[i].threw

C17_PickOnEmptyThrows ==
  (lastCall.op = "pick" /\ lastCall.list = <<>>)
    => /\ lastCall.threw
       /\ lastCall.value = <<>>
       /\ lastCall.draws = 0
       /\ outA[Len(outA)].kind = "error"

C17_Witness ==
  /\ lastCall.op = "pick"
  /\ lastCall.list = <<>>
  /\ lastCall.threw
  /\ Len(outA) = 2
  /\ outA[1].kind = "pick"

\* the number of positions of s that hold x
Occurrences(s, x) == Cardinality({i \in 1..Len(s) : s[i] = x})

\* t holds the elements of s, each as often as s does
IsPermutation(s, t) ==
  /\ Len(s) = Len(t)
  /\ \A i \in 1..Len(s) : Occurrences(t, s[i]) = Occurrences(s, s[i])

\* C18 as stated: a shuffle of an array of length n consumed n - 1 draws, left
\* a permutation of the input and returned the array it was given.
C18_ShuffleDrawsNMinusOne ==
  lastCall.op = "shuffle"
    => /\ lastCall.draws = Len(lastCall.list) - 1
       /\ IsPermutation(lastCall.list, lastCall.value)
       /\ lastCall.ref = 1

\* C18, amended: a shuffle of an array of length n consumed n - 1 draws when
\* n >= 1 and none when the array is empty; the array, shuffled in place, is
\* a permutation of the input, and the array returned is the array given.
C18_ShuffleDraws ==
  lastCall.op = "shuffle"
    => /\ lastCall.draws = IF Len(lastCall.list) = 0 THEN 0 ELSE Len(lastCall.list) - 1
       /\ IsPermutation(lastCall.list, lastCall.value)
       /\ arrA = lastCall.value
       /\ lastCall.ref = 1

C18_Witness ==
  /\ lastCall.op = "shuffle"
  /\ Len(lastCall.list) = 3
  /\ lastCall.draws = 2
  /\ lastCall.value # lastCall.list

(* ------------------- properties of the collector ----------------------- *)
\* C13: getRecords returns the samples recorded since the buffer was last
\* emptied, in the order they were recorded; after clearRecords the buffer is
\* empty and getCount gives 0 (getCount always gives the number of samples
\* recorded since).
C13_RecordSnapshotClear ==
  /\ colOp = "getRecords" => colResult = recordedSince
  /\ colOp = "getCount" => colResult = Len(recordedSince)
  /\ colOp = "clearRecords" => (colRecords = <<>> /\ getCount(colRecords) = 0)

C13_Witness ==
  /\ colOp = "getRecords"
  /\ Len(colResult) = 2
  /\ colResult[1].latencyMs = 30
  /\ colResult[2].latencyMs = 10

\* the positions of the buffer that hold a successful sample
SuccessAt(buf) == {i \in 1..Len(buf) : buf[i].success}

\* the buffer without its failed samples
OnlySuccess(buf) == SelectSeq(buf, LAMBDA r : r.success)

\* the latency fields of a metrics object
LatencyFields(m) ==
  <<m.latencyP50, m.latencyP95, m.latencyP99, m.latencyMin, m.latencyMax,
    m.latencyMean>>

\* C14: getMetrics gives totalCount = buffer length = successCount +
\* errorCount, and its percentiles, min, max and mean are those of the buffer
\* with the failed samples left out: min and max are latencies of successful
\* samples and the mean is their sum over their number.
C14_CountsAllStatsSuccessful ==
  colOp = "getMetrics"
    => /\ colResult.totalCount = Len(colRecords)
       /\ colResult.totalCount = colResult.successCount + colResult.errorCount
       /\ colResult.successCount = Cardinality(SuccessAt(colRecords))
       /\ LatencyFields(colResult)
            = LatencyFields(getMetrics(OnlySuccess(colRecords), clock, colStartTime))
       /\ SuccessAt(colRecords) # {}
            => /\ \E i \in SuccessAt(colRecords) :
                    colResult.latencyMin = colRecords[i].latencyMs
               /\ \E i \in SuccessAt(colRecords) :
                    colResult.latencyMax = colRecords[i].latencyMs
               /\ \A i \in SuccessAt(colRecords) :
                    /\ colResult.latencyMin <= colRecords[i].latencyMs
                    /\ colResult.latencyMax >= colRecords[i].latencyMs
               /\ colResult.latencyMean.den = Cardinality(SuccessAt(colRecords))

C14_Witness ==
  /\ colOp = "getMetrics"
  /\ colRecords = <<Ok(50), Err(5), Ok(10), Err(90), Ok(30)>>
  /\ colResult.errorCount = 2
  /\ colResult.latencyMin = 10
  /\ colResult.latencyMax = 50

\* v is the element at index ceil(n * pct / 100) - 1 of the ascending order of
\* the successful latencies: fewer than ceil(n * pct / 100) of them are below
\* v and at least that many are at most v
IsRank(buf, v, pct) ==
  LET n == Cardinality(SuccessAt(buf))
      rank == (n * pct + 99) \div 100
  IN /\ \E i \in SuccessAt(buf) : buf[i].latencyMs = v
     /\ Cardinality({i \in SuccessAt(buf) : buf[i].latencyMs < v}) < rank
     /\ Cardinality({i \in SuccessAt(buf) : buf[i].latencyMs <= v}) >= rank

\* C15: with at least one successful sample, each percentile is the element
\* at index ceil(length * p) - 1 of the ascending successful latencies; for
\* the successful latencies 10, 20, 30, 40, 50: p50 = 30, p95 = 50, min = 10,
\* max = 50, mean = 30.
C15_PercentileByRank ==
  colOp = "getMetrics"
    => /\ SuccessAt(colRecords) # {}
            => /\ IsRank(colRecords, colResult.latencyP50, 50)
               /\ IsRank(colRecords, colResult.latencyP95, 95)
               /\ IsRank(colRecords, colResult.latencyP99, 99)
       /\ colRecords = <<Ok(10), Ok(20), Ok(30), Ok(40), Ok(50)>>
            => /\ colResult.latencyP50 = 30
               /\ colResult.latencyP95 = 50
               /\ colResult.latencyMin = 10
               /\ colResult.latencyMax = 50
               /\ colResult.latencyMean.num = 30 * colResult.latencyMean.den

C15_Witness ==
  /\ colOp = "getMetrics"
  /\ colRecords = <<Ok(10), Ok(20), Ok(30), Ok(40), Ok(50)>>
  /\ colResult.latencyP50 = 30
  /\ colResult.latencyP95 = 50

\* a quotient that is 0 and divides by a positive number
IsZero(q) == q.num = 0 /\ q.den > 0

TypeAllZero(t) ==
  /\ t.count = 0 /\ t.successCount = 0 /\ t.errorCount = 0
  /\ IsZero(t.latencyMean) /\ t.latencyP95 = 0

\* C16: getMetrics never divides by zero; on an empty buffer every count,
\* percentile, min, max, the mean and the throughput are 0, and on a buffer
\* without a successful sample the latency fields are 0.
C16_EmptyMetricsAreZero ==
  colOp = "getMetrics"
    => /\ colResult.latencyMean.den > 0
       /\ colResult.opsPerSecond.den > 0
       /\ colRecords = <<>>
            => /\ colResult.totalCount = 0
               /\ colResult.successCount = 0
               /\ colResult.errorCount = 0
               /\ IsZero(colResult.opsPerSecond)
               /\ TypeAllZero(colResult.byType.query)
               /\ TypeAllZero(colResult.byType.mutation)
               /\ TypeAllZero(colResult.byType.action)
       /\ SuccessAt(colRecords) = {}
            => /\ colResult.latencyP50 = 0
               /\ colResult.latencyP95 = 0
               /\ colResult.latencyP99 = 0
               /\ colResult.latencyMin = 0
               /\ colResult.latencyMax = 0
               /\ IsZero(colResult.latencyMean)

C16_Witness ==
  /\ colOp = "getMetrics"
  /\ Len(colRecords) = 2
  /\ SuccessAt(colRecords) = {}
  /\ colResult.errorCount = 2
  /\ colResult.latencyP95 = 0

\* C20: clearRecords empties the buffer and leaves the start of the
\* throughput window as it was; reset empties the buffer and sets the start
\* of the window to the current time.
C20_ClearKeepsWindowResetRestarts ==
  [][clock' = clock
       => /\ colOp' = "clearRecords"
               => (colRecords' = <<>> /\ colStartTime' = colStartTime)
          /\ colOp' = "reset"
               => (colRecords' = <<>> /\ colStartTime' = clock)]_vars

C20_Witness ==
  /\ colOp = "clearRecords"
  /\ clock = 2000
  /\ colStartTime = 1000
  /\ colRecords = <<>>

(* ---------------- properties of the reporter's record ------------------ *)
\* C19: a record call on the enabled reporter puts the sample at the end of
\* the buffer, invokes the configured onRecord observer once with it, and
\* starts a flush exactly when the buffer count after the append is at least
\* maxBufferSize; that flush takes the sample in its batch, and when record
\* returns a delivery to a configured sink is still pending.
C19_RecordAppendsObservesTriggers ==
  [][(lastOp' = "record" /\ nextSample' = nextSample + 1)
       => LET count == Len(records) + 1
              triggered == Len(flushes') = Len(flushes) + 1
          IN /\ onRecordLog' = IF cfg.onRecord THEN Append(onRecordLog, nextSample)
                                               ELSE onRecordLog
             /\ triggered <=> count >= cfg.maxBufferSize
             /\ ~triggered => (records' = Append(records, nextSample)
                                /\ flushes' = flushes)
             /\ triggered
                  => /\ flushes'[Len(flushes')].batch = Append(records, nextSample)
                     /\ cfg.reportUrl => flushes'[Len(flushes')].pc \in {"onFlush", "post"}
                     /\ (cfg.onFlush /\ "onFlush error" \notin errorLog')
                          => flushes'[Len(flushes')].pc = "onFlush"]_vars

C19_Witness ==
  /\ lastOp = "record"
  /\ cfg.onRecord
  /\ cfg.maxBufferSize = 2
  /\ onRecordLog = <<1, 2>>
  /\ Len(flushes) = 1
  /\ flushes[1].batch = <<1, 2>>
  /\ flushes[1].pc = "post"

(* ------------------- properties of the tracked calls ------------------- *)
\* C24 as stated: every settled call of a tracked mutation or action has
\* recorded exactly one sample.
C24_EveryCallRecordsOne ==
  \A c \in 1..Len(tracked) :
    tracked[c].pc # "await" => Len(tracked[c].recorded) = 1

\* C24, amended: a settled call whose latency context exists and whose record
\* callback is one of an enabled render has recorded exactly one sample, of
\* its type, whose success flag is true iff the underlying call resolved; a
\* settled call without context or with the record callback of a disabled
\* render has recorded none; and the call left as a rejection exactly when the
\* underlying call rejected, its sample already recorded.
C24_TrackedCallRecordsOne ==
  \A c \in 1..Len(tracked) :
    LET call == tracked[c]
    IN /\ call.pc = "await" => call.recorded = <<>>
       /\ call.pc # "await" =>
            IF call.hasCtx /\ ~call.seenDisabled
            THEN /\ Len(call.recorded) = 1
                 /\ call.recorded[1].success = (call.pc = "resolved")
                 /\ call.recorded[1].type = call.type
                 /\ call.recorded[1].id < nextSample
            ELSE call.recorded = <<>>

\* a mutation that resolved and an action that rejected each left one sample
C24_Witness ==
  /\ Len(tracked) = 2
  /\ tracked[1].type = "mutation" /\ tracked[1].pc = "resolved"
  /\ Len(tracked[1].recorded) = 1
  /\ tracked[2].type = "action" /\ tracked[2].pc = "rejected"
  /\ Len(tracked[2].recorded) = 1 /\ ~tracked[2].recorded[1].success

\* C29: while the disabled prop is true no interval is armed, and a record
\* call made then (here by the finally block of a tracked call under the
\* provider) leaves the buffer as it is, invokes no observer and starts no
\* flush.
C29_DisabledRecordIsNoop ==
  /\ [](disabled => ~flushTimer)
  /\ [][(/\ disabled
          /\ \E c \in 1..Len(tracked) :
               /\ tracked[c].hasCtx
               /\ tracked[c].pc = "await"
               /\ tracked'[c].pc # "await")
          => /\ records' = records
             /\ onRecordLog' = onRecordLog
             /\ flushes' = flushes
             /\ flushTimer' = flushTimer]_vars

(* ------------------- properties of the reporter's buffer --------------- *)
\* C26: in every payload handed to fetch, metrics.totalCount is the number of
\* records of that payload.
C26_PayloadMetricsMatchRecords ==
  \A p \in postLog : p.totalCount = Len(p.records)

\* C28: the buffer of a provider with maxBufferSize >= 1 holds fewer than
\* maxBufferSize samples in every state between two handlers, in particular
\* when a record call has returned.
C28_BufferBelowThreshold ==
  Len(records) < cfg.maxBufferSize

\* a record call that reached the threshold of 2 has returned with the buffer
\* emptied into a flush
C28_Witness ==
  /\ lastOp = "record"
  /\ ~disabled
  /\ cfg.maxBufferSize = 2
  /\ records = <<>>
  /\ Len(flushes) = 1
  /\ flushes[1].batch = <<1, 2>>

(* ------------------- properties of the items context ------------------ *)
ActiveSubs == {i \in 1..Len(subs) : subs[i].active}

\* C30: the context has at most one active listItems subscription; reads
\* create a subscription only when none was created before (so at most one
\* subscription is created by reads, and a read on a fresh context creates
\* it); and a call that creates a subscription leaves every earlier one
\* unsubscribed.
C30_AtMostOneSubscription ==
  /\ [](Cardinality(ActiveSubs) <= 1)
  /\ [](Cardinality({i \in 1..Len(subs) : subs[i].by = "read"}) <= 1)
  /\ []((\E i \in 1..Len(subs) : subs[i].by = "read") => subs[1].by = "read")
  /\ [](subscribed <=> subs # <<>>)
  /\ [][Len(subs') > Len(subs)
         => /\ Len(subs') = Len(subs) + 1
            /\ ActiveSubs' = {Len(subs')}]_vars

\* a lazy subscription of the first read was replaced twice by setup
C30_Witness ==
  /\ Len(subs) = 3
  /\ subs[1].by = "read" /\ ~subs[1].active
  /\ subs[2].by = "setup" /\ ~subs[2].active
  /\ subs[3].by = "setup" /\ subs[3].active
  /\ subs[2].projectId # subs[3].projectId

(* ------------------- properties of the replayed runs ------------------- *)
\* C25: two runs of the mixed behavior with the same seed, the same cache and
\* operations that resolve alike have issued the same operations with the
\* same arguments, as far as both have come.
C25_SameSeedSameOperations ==
  \A i \in 1..Len(rpOpsA) : i <= Len(rpOpsB) => rpOpsA[i] = rpOpsB[i]

====
